---- MODULE Spec2Model ----
(***************************************************************************)
(* A model of py2048's rules engine: the Grid of Cells (grid.py, cell.py), *)
(* the generic grid it extends (__init__.py) and the helpers of utils.py.  *)
(*                                                                         *)
(* A Cell is identified by its Point <<x, y>>; its number and its lock are *)
(* the functions `number` and `locked`.  Every public method of Grid is a  *)
(* set-valued operator (the set of outcomes the random draws allow) on a   *)
(* grid record, and an action that applies it to the variables.            *)
(* Python 3.8 is assumed, the version the sources quote in their comments  *)
(* (random.sample still accepts a set there).                              *)
(***************************************************************************)
EXTENDS Integers, Sequences, FiniteSets, TLC

VARIABLES
    number,       \* Cell._number of the Cell at each Point
    locked,       \* Cell._lock of the Cell at each Point
    empty_cells,  \* Grid.empty_cells
    history,      \* Grid.history
    attempt,      \* Grid.attempt
    cycle,        \* Grid.cycle
    score,        \* Grid.score
    op,           \* the last public call: its name, its arguments and the grid
                  \* it was made on
    ret,          \* what that call returned, or the exception it raised
    pre,          \* drag: the numbers when the call started; undo keeps it
    mid,          \* drag only: numbers and locks when the move phase ended,
                  \* and the Cells _move_cell was called with, in order
    moves,        \* drag only: the moves of the move phase, in order
    frontend,     \* Base2048Frontend: its fields and where play2048 stands
    intgrid       \* IntGameGrid (test.py): the mapping of the grid under test

gridvars == <<number, locked, empty_cells, history, attempt, cycle, score>>
vars == <<number, locked, empty_cells, history, attempt, cycle, score,
          op, ret, pre, mid, moves, frontend, intgrid>>

(***************************************************************************)
(* Program constants and the bounds of the model.                          *)
(***************************************************************************)
Side == 4
STARTING_AMOUNT == 2
SEEDING_VALUES == {2, 4}

MaxPower == 2      \* the boards drawn as inputs hold 0, 2, ..., 2^MaxPower
MaxSeed == 2       \* seed(amount) is called with amount in 0..MaxSeed
MaxAttempt == 1    \* drag is called while attempt < MaxAttempt
MaxHistory == 2    \* calls that can grow history are made while it is shorter
MaxTiles == 1      \* seed is called on a sparse grid while it leaves this many tiles

WordBits == 16     \* the integers of the model lie within -2^15 .. 2^15 - 1
MaxPlayAttempt == 2 \* play2048 asks for a direction while attempt < MaxPlayAttempt
MaxNegative == 64  \* either_0_power2 is applied to the integers from -MaxNegative on
_BIG_NUMBER == 3000

RECURSIVE Pow2(_)
Pow2(k) == IF k = 0 THEN 1 ELSE 2 * Pow2(k - 1)

(***************************************************************************)
(* utils.py                                                                *)
(***************************************************************************)
RECURSIVE BitAnd(_, _)
BitAnd(a, b) ==
    IF a = 0 \/ b = 0 THEN 0
    ELSE (IF a % 2 = 1 /\ b % 2 = 1 THEN 1 ELSE 0) + 2 * BitAnd(a \div 2, b \div 2)

\* a & b on Python's integers, which behave as two's complement numbers of
\* any width: computed on WordBits bits, enough for every integer used here
Modulus == Pow2(WordBits)
IntAnd(a, b) ==
    IF a >= 0 /\ b >= 0 THEN BitAnd(a, b)
    ELSE LET r == BitAnd(a % Modulus, b % Modulus)
         IN  IF r >= Modulus \div 2 THEN r - Modulus ELSE r

\* the magnitude of the integer is tested
either_0_power2_of_magnitude(integer) ==
    LET n == IF integer < 0 THEN 0 - integer ELSE integer
    IN  n = 0 \/ BitAnd(n, n - 1) = 0

\* `not integer & (integer - 1)`
either_0_power2(integer) ==
    IntAnd(integer, integer - 1) = 0

(***************************************************************************)
(* __init__.py: Point, Directions, BaseGameGrid                            *)
(***************************************************************************)
Axis == 0 .. (Side - 1)
Points == Axis \X Axis
None == <<-1, -1>>

\* Directions, in the order of the enumeration
Directions == <<"up", "left", "down", "right">>
DirectionSet == {Directions[i] : i \in 1 .. Len(Directions)}

\* Point + displacement: the component-wise sum, as a plain pair
PointAdd(point, shift) == <<point[1] + shift[1], point[2] + shift[2]>>

\* BaseGameGrid.keys: the points in sorted order, x first
keys == [i \in 1 .. (Side * Side) |-> <<(i - 1) \div Side, (i - 1) % Side>>]

\* An index selector of GridIndex: an int or the null slice
IntSel(i) == [kind |-> "int", i |-> i]
NONE_SLICE == [kind |-> "all", i |-> 0]

\* An int that may be None: None is the empty set, the int n is {n}
NoInt == {}
\* Python's `value or default` for such a value: None and 0 are both falsy
Or(value, default) ==
    IF value = NoInt \/ value = {0} THEN default ELSE CHOOSE n \in value : TRUE

\* sys.maxsize: the largest int of the model
sys_maxsize == Pow2(WordBits - 1) - 1

\* The other selectors: the Ellipsis literal and slice(start, stop, step);
\* slices compare by value, so slice(None, None, None) is the null slice
Ellipsis == [kind |-> "ellipsis", i |-> 0]
slice(start, stop, step) ==
    IF start = NoInt /\ stop = NoInt /\ step = NoInt THEN NONE_SLICE
    ELSE [kind |-> "slice", start |-> start, stop |-> stop, step |-> step]

_slice2range(s) ==
    [start |-> Or(s.start, 0), stop |-> Or(s.stop, sys_maxsize), step |-> Or(s.step, 1)]

\* `coordinate in range(start, stop, step)`
InRange(coordinate, r) ==
    IF r.step > 0
    THEN /\ r.start <= coordinate
         /\ coordinate < r.stop
         /\ (coordinate - r.start) % r.step = 0
    ELSE /\ r.stop < coordinate
         /\ coordinate <= r.start
         /\ (r.start - coordinate) % (0 - r.step) = 0

\* the restriction select_keys adds for one axis
Restricts(sel, coordinate) ==
    CASE sel.kind = "int" -> coordinate = sel.i
      [] sel.kind = "slice" -> InRange(coordinate, _slice2range(sel))
      [] OTHER -> TRUE

select_keys(x, y) ==
    SelectSeq(keys, LAMBDA point : Restricts(x, point[1]) /\ Restricts(y, point[2]))

x_axis(reverse) == [i \in 1 .. Side |-> IF reverse THEN Side - i ELSE i - 1]
y_axis(reverse) == [i \in 1 .. Side |-> IF reverse THEN Side - i ELSE i - 1]

columns(reverse) ==
    [i \in 1 .. Side |-> select_keys(IntSel(x_axis(reverse)[i]), NONE_SLICE)]
rows(reverse) ==
    [i \in 1 .. Side |-> select_keys(NONE_SLICE, IntSel(y_axis(reverse)[i]))]

\* BaseGameGrid.width and height: the distinct x and the distinct y
width == Cardinality({point[1] : point \in {keys[i] : i \in DOMAIN keys}})
height == Cardinality({point[2] : point \in {keys[i] : i \in DOMAIN keys}})

\* check_integrity of SquareGameGrid: TRUE when no assertion fails
check_integrity ==
    /\ \A i \in DOMAIN x_axis(FALSE) : x_axis(FALSE)[i] = i - 1
    /\ \A i \in DOMAIN columns(FALSE) : \A j \in DOMAIN columns(FALSE) :
         Len(columns(FALSE)[i]) = Len(columns(FALSE)[j])
    /\ \A i \in DOMAIN y_axis(FALSE) : y_axis(FALSE)[i] = i - 1
    /\ \A i \in DOMAIN rows(FALSE) : \A j \in DOMAIN rows(FALSE) :
         Len(rows(FALSE)[i]) = Len(rows(FALSE)[j])
    /\ Len(keys) = height * width
    /\ width = height

RECURSIVE chain_from_iterable(_)
chain_from_iterable(vectors) ==
    IF vectors = <<>> THEN <<>>
    ELSE Head(vectors) \o chain_from_iterable(Tail(vectors))

(***************************************************************************)
(* BaseGameGrid of any width and height.  The grid is its mapping, a       *)
(* function from the points it holds to their values; the subclass is      *)
(* IntGameGrid (test.py), so that the values are ints.                     *)
(***************************************************************************)
\* A key of __getitem__ and __setitem__: a Point, or the one or two
\* selectors GridIndex is made from
PointKey(x, y) == [is_point |-> TRUE, args |-> <<IntSel(x), IntSel(y)>>]
IndexKey(args) == [is_point |-> FALSE, args |-> args]

\* the one selector is taken for the y-axis
GridIndex_one_selector_is_y(args) ==
    LET one == IF args[1].kind = "ellipsis" THEN NONE_SLICE ELSE args[1]
        x == IF Len(args) = 1 THEN NONE_SLICE ELSE one
        y == IF Len(args) = 1 THEN one
             ELSE IF args[2].kind = "ellipsis" THEN NONE_SLICE ELSE args[2]
    IN  [x |-> x, y |-> y,
         ret |-> IF \/ (x.kind = "int" /\ x.i < 0)
                    \/ (y.kind = "int" /\ y.i < 0)
                 THEN "NegativeIntegerError" ELSE "None"]

\* GridIndex.__init__ for one or two arguments, none of them None
GridIndex(args) ==
    LET x == IF args[1].kind = "ellipsis" THEN NONE_SLICE ELSE args[1]
        y == IF Len(args) = 1 \/ args[2].kind = "ellipsis" THEN NONE_SLICE
             ELSE args[2]
    IN  [x |-> x, y |-> y,
         ret |-> IF \/ (x.kind = "int" /\ x.i < 0)
                    \/ (y.kind = "int" /\ y.i < 0)
                 THEN "NegativeIntegerError" ELSE "None"]

\* BaseGameGrid.__init__ of IntGameGrid: int(point) is a TypeError, int() is 0
BaseGameGrid(width_, height_) ==
    IF width_ < 0 \/ height_ < 0 THEN [mapping |-> <<>>, ret |-> "NegativeIntegerError"]
    ELSE IF width_ < 2 \/ height_ < 2 THEN [mapping |-> <<>>, ret |-> "ValueError"]
    ELSE [mapping |-> [point \in (0 .. (width_ - 1)) \X (0 .. (height_ - 1)) |-> 0],
          ret |-> "None"]

\* sorted(points): x first, then y
RECURSIVE sorted_points(_)
sorted_points(points) ==
    IF points = {} THEN <<>>
    ELSE LET first == CHOOSE p \in points : \A q \in points :
                          p[1] < q[1] \/ (p[1] = q[1] /\ p[2] <= q[2])
         IN  <<first>> \o sorted_points(points \ {first})

\* sorted(ints, reverse=reverse)
RECURSIVE sorted_ints(_, _)
sorted_ints(ints, reverse) ==
    IF ints = {} THEN <<>>
    ELSE LET first == CHOOSE i \in ints : \A j \in ints :
                          IF reverse THEN i >= j ELSE i <= j
         IN  <<first>> \o sorted_ints(ints \ {first}, reverse)

keys_of(mapping) == sorted_points(DOMAIN mapping)
_distinct_xs(mapping) == {point[1] : point \in DOMAIN mapping}
_distinct_ys(mapping) == {point[2] : point \in DOMAIN mapping}
x_axis_of(mapping, reverse) == sorted_ints(_distinct_xs(mapping), reverse)
y_axis_of(mapping, reverse) == sorted_ints(_distinct_ys(mapping), reverse)
width_of(mapping) == Cardinality(_distinct_xs(mapping))
height_of(mapping) == Cardinality(_distinct_ys(mapping))

\* select_keys once GridIndex accepted the selectors
select_keys_of(mapping, args) ==
    LET index == GridIndex(args)
    IN  SelectSeq(keys_of(mapping),
                  LAMBDA point : Restricts(index.x, point[1]) /\ Restricts(index.y, point[2]))

\* what __getitem__ gives: the exception, or the values selected and whether
\* the one value itself is returned rather than a tuple
Raised(exception) == [ret |-> exception, single |-> FALSE, values |-> <<>>]

__getitem__(mapping, key) ==
    IF key.is_point
    THEN LET point == <<key.args[1].i, key.args[2].i>>
         IN  IF point \in DOMAIN mapping
             THEN [ret |-> "None", single |-> TRUE, values |-> <<mapping[point]>>]
             ELSE Raised("KeyError")
    ELSE IF GridIndex(key.args).ret # "None" THEN Raised(GridIndex(key.args).ret)
    ELSE LET sel == select_keys_of(mapping, key.args)
             selecteds == [i \in DOMAIN sel |-> mapping[sel[i]]]
         IN  IF selecteds = <<>> THEN Raised("KeyError")
             ELSE [ret |-> "None", single |-> Len(selecteds) = 1, values |-> selecteds]

columns_of(mapping, reverse) ==
    [i \in 1 .. width_of(mapping) |->
        __getitem__(mapping, IndexKey(<<IntSel(x_axis_of(mapping, reverse)[i])>>))]
rows_of(mapping, reverse) ==
    [i \in 1 .. height_of(mapping) |->
        __getitem__(mapping, IndexKey(<<Ellipsis, IntSel(y_axis_of(mapping, reverse)[i])>>))]

\* check_integrity of BaseGameGrid: TRUE when no assertion fails; the values
\* are ints, as CELLCLASS demands
check_integrity_of(mapping) ==
    /\ \A i \in DOMAIN x_axis_of(mapping, FALSE) : x_axis_of(mapping, FALSE)[i] = i - 1
    /\ \A i \in DOMAIN columns_of(mapping, FALSE) :
       \A j \in DOMAIN columns_of(mapping, FALSE) :
         Len(columns_of(mapping, FALSE)[i].values) = Len(columns_of(mapping, FALSE)[j].values)
    /\ \A i \in DOMAIN y_axis_of(mapping, FALSE) : y_axis_of(mapping, FALSE)[i] = i - 1
    /\ \A i \in DOMAIN rows_of(mapping, FALSE) :
       \A j \in DOMAIN rows_of(mapping, FALSE) :
         Len(rows_of(mapping, FALSE)[i].values) = Len(rows_of(mapping, FALSE)[j].values)
    /\ Cardinality(DOMAIN mapping) = height_of(mapping) * width_of(mapping)

\* A value assigned: an int, or a container of ints
Scalar(value) == [container |-> FALSE, items |-> <<value>>]
Container(items) == [container |-> TRUE, items |-> items]

\* set_point: the dict takes a new key as well as an old one
set_point(mapping, key, value) ==
    [point \in DOMAIN mapping \cup {key} |-> IF point = key THEN value ELSE mapping[point]]

\* the loop of __setitem__ over zip(selecteds, value), from the i-th pair on
RECURSIVE set_points(_, _, _, _)
set_points(mapping, selecteds, values, i) ==
    IF i > Len(selecteds) \/ i > Len(values) THEN mapping
    ELSE set_points(set_point(mapping, selecteds[i], values[i]), selecteds, values, i + 1)

\* the length of a container is compared after the pairs were assigned
setitem_checks_length_last(mapping, key, value) ==
    IF key.is_point
    THEN IF value.container THEN [mapping |-> mapping, ret |-> "ExpectationError"]
         ELSE [mapping |-> set_point(mapping, <<key.args[1].i, key.args[2].i>>,
                                     value.items[1]),
               ret |-> "None"]
    ELSE IF GridIndex(key.args).ret # "None"
    THEN [mapping |-> mapping, ret |-> GridIndex(key.args).ret]
    ELSE LET selecteds == select_keys_of(mapping, key.args)
             points_amount == Len(selecteds)
             values == IF ~value.container
                       THEN [i \in 1 .. points_amount |-> value.items[1]]
                       ELSE value.items
             assigned == set_points(mapping, selecteds, values, 1)
         IN  IF selecteds = <<>> THEN [mapping |-> mapping, ret |-> "KeyError"]
             ELSE [mapping |-> assigned,
                   ret |-> IF Len(values) # points_amount THEN "ValueError"
                           ELSE IF check_integrity_of(assigned) THEN "None"
                           ELSE "AssertionError"]

__setitem__(mapping, key, value) ==
    IF key.is_point
    THEN IF value.container THEN [mapping |-> mapping, ret |-> "ExpectationError"]
         ELSE [mapping |-> set_point(mapping, <<key.args[1].i, key.args[2].i>>,
                                     value.items[1]),
               ret |-> "None"]
    ELSE IF GridIndex(key.args).ret # "None"
    THEN [mapping |-> mapping, ret |-> GridIndex(key.args).ret]
    ELSE LET selecteds == select_keys_of(mapping, key.args)
             points_amount == Len(selecteds)
             values == IF ~value.container
                       THEN [i \in 1 .. points_amount |-> value.items[1]]
                       ELSE value.items
             assigned == set_points(mapping, selecteds, values, 1)
         IN  IF selecteds = <<>> THEN [mapping |-> mapping, ret |-> "KeyError"]
             ELSE IF Len(values) # points_amount
             THEN [mapping |-> mapping, ret |-> "ValueError"]
             ELSE [mapping |-> assigned,
                   ret |-> IF check_integrity_of(assigned) THEN "None"
                           ELSE "AssertionError"]

\* IntGameGrid._make_ranged: numbered left to right, then top to bottom
_make_ranged(cols, rows_) ==
    [point \in DOMAIN BaseGameGrid(cols, rows_).mapping |-> point[2] * cols + point[1]]

(***************************************************************************)
(* grid.py: the Grid record and its private methods                        *)
(***************************************************************************)
_SHIFTS == [left |-> <<-1, 0>>, right |-> <<1, 0>>, down |-> <<0, 1>>, up |-> <<0, -1>>]

ZeroBoard == [p \in Points |-> 0]
NoLocks == [p \in Points |-> FALSE]

\* every Cell is 0 and none is counted as empty
NewGridNoEmpties ==
    [number |-> ZeroBoard, locked |-> NoLocks, empty_cells |-> {},
     history |-> <<>>, attempt |-> 0, cycle |-> 0, score |-> 0]

\* Grid.__init__: no Cell holds a number, no snapshot is stored
NewGrid ==
    [number |-> ZeroBoard, locked |-> NoLocks, empty_cells |-> Points,
     history |-> <<>>, attempt |-> 0, cycle |-> 0, score |-> 0]

\* Cell.number's setter accepts the value (cell.py); an int is assumed
number_setter_ok(value) == either_0_power2(value)

\* a Cell that becomes 0 is not put back among the empty ones
_set_cell_never_adds(g, cell, n) ==
    [g EXCEPT !.number[cell] = n,
              !.empty_cells = IF n # 0 THEN @ \ {cell} ELSE @]

\* any value is assigned
number_setter_unchecked(g, cell, value) ==
    [g |-> [g EXCEPT !.number[cell] = value], ret |-> "None"]

\* Cell.number's setter for a value that is an int
number_setter(g, cell, value) ==
    IF ~either_0_power2(value) THEN [g |-> g, ret |-> "InvalidCellIntError"]
    ELSE [g |-> [g EXCEPT !.number[cell] = value], ret |-> "None"]

\* _set_cell with any int: the setter may raise, before empty_cells is touched
_set_cell_or_raise(g, cell, value) ==
    LET r == number_setter(g, cell, value)
    IN  IF r.ret # "None" THEN r
        ELSE [g |-> [r.g EXCEPT !.empty_cells = IF value # 0 THEN @ \ {cell}
                                                ELSE @ \cup {cell}],
              ret |-> "None"]

\* the snapshots stored hold the live Cells: a new number shows in all of them
_set_cell_seen_by_snapshots(g, cell, n) ==
    [g EXCEPT !.number[cell] = n,
              !.empty_cells = IF n # 0 THEN @ \ {cell} ELSE @ \cup {cell},
              !.history = [i \in DOMAIN @ |->
                              [p \in DOMAIN @[i] |-> IF p = cell THEN n ELSE @[i][p]]]]

\* the callers below pass numbers the setter accepts, or test them first
_set_cell(g, cell, n) ==
    [g EXCEPT !.number[cell] = n,
              !.empty_cells = IF n # 0 THEN @ \ {cell} ELSE @ \cup {cell}]

\* Grid._set_point; no method of BaseGameGrid calls it
_set_point(g, key, n) == _set_cell(g, key, n)

\* a value assigned to a position of a Grid: an int, or a new Cell with a number
IntValue(n) == [type |-> "int", number |-> n]
CellValue(n) == [type |-> "Cell", number |-> n]

\* type_check(value, expected), positive
type_check(value, expected) == value.type = expected

\* BaseGameGrid.set_point on a Grid, whose CELLCLASS is Cell: records [g, ret].
\* mapping[key] = value puts the new, unlocked Cell in the place of the old
\* one and touches nothing else.
Grid_set_point(g, key, value) ==
    IF ~type_check(value, "Cell") THEN [g |-> g, ret |-> "ExpectationError"]
    ELSE [g |-> [g EXCEPT !.number[key] = value.number, !.locked[key] = FALSE],
          ret |-> "None"]

\* BaseGameGrid.__setitem__ on a Grid with a Point or a pair of ints as key:
\* records [g, ret]
Grid__setitem__(g, key, value) ==
    IF key.is_point THEN Grid_set_point(g, key.point, value)
    ELSE LET selecteds == select_keys(IntSel(key.point[1]), IntSel(key.point[2]))
         IN  IF selecteds = <<>> THEN [g |-> g, ret |-> "KeyError"]
             ELSE Grid_set_point(g, selecteds[1], value)

\* the grid wraps around: beyond an edge lies the Cell of the opposite edge
_neighbor_wrapping(cell, to) ==
    LET xy == PointAdd(cell, _SHIFTS[to])
    IN  <<xy[1] % Side, xy[2] % Side>>

_neighbor(cell, to) ==
    LET xy == PointAdd(cell, _SHIFTS[to])
    IN  IF xy[1] < 0 \/ xy[2] < 0 THEN None     \* NegativeIntegerError
        ELSE IF xy \notin Points THEN None      \* KeyError
        ELSE xy

\* a walk that does not look at the lock of the matching Cell
RECURSIVE PivotWalkAnyLock(_, _, _, _, _)
PivotWalkAnyLock(g, current, last, target, to) ==
    LET next == _neighbor(current, to)
    IN  IF next = None THEN last
        ELSE IF g.number[next] = 0 THEN PivotWalkAnyLock(g, next, next, target, to)
        ELSE IF g.number[next] = target THEN next
        ELSE last

\* the walk stops at the first empty Cell
PivotWalkNearestEmpty(g, current, last, target, to) ==
    LET next == _neighbor(current, to)
    IN  IF next = None THEN last
        ELSE IF g.number[next] = 0 THEN next
        ELSE IF g.number[next] = target /\ ~g.locked[next] THEN next
        ELSE last

RECURSIVE PivotWalk(_, _, _, _, _)
PivotWalk(g, current, last, target, to) ==
    LET next == _neighbor(current, to)
    IN  IF next = None THEN last
        ELSE IF g.number[next] = 0 THEN PivotWalk(g, next, next, target, to)
        ELSE IF g.number[next] = target /\ ~g.locked[next] THEN next
        ELSE last

_pivot(g, cell, to) == PivotWalk(g, cell, cell, g.number[cell], to)

\* a slide into an empty Cell is done, but is not reported as movement
_move_cell_slide_unreported(g, cell, to) ==
    IF g.number[cell] = 0 THEN [g |-> g, moved |-> FALSE, pivot |-> cell, merged |-> FALSE]
    ELSE LET pivot == _pivot(g, cell, to)
         IN  IF pivot = cell
             THEN [g |-> g, moved |-> FALSE, pivot |-> cell, merged |-> FALSE]
             ELSE LET new_number == g.number[cell] + g.number[pivot]
                      merged == g.number[pivot] # 0
                      g1 == IF merged
                            THEN [g EXCEPT !.locked[pivot] = TRUE,
                                           !.score = @ + new_number]
                            ELSE g
                  IN  [g |-> _set_cell(_set_cell(g1, cell, 0), pivot, new_number),
                       moved |-> merged, pivot |-> pivot, merged |-> merged]

\* a slide into an empty Cell locks it and counts for the score
_move_cell_slide_as_merge(g, cell, to) ==
    IF g.number[cell] = 0 THEN [g |-> g, moved |-> FALSE, pivot |-> cell, merged |-> FALSE]
    ELSE LET pivot == _pivot(g, cell, to)
         IN  IF pivot = cell
             THEN [g |-> g, moved |-> FALSE, pivot |-> cell, merged |-> FALSE]
             ELSE LET new_number == g.number[cell] + g.number[pivot]
                      merged == g.number[pivot] # 0
                      g1 == [g EXCEPT !.locked[pivot] = TRUE,
                                      !.score = @ + new_number]
                  IN  [g |-> _set_cell(_set_cell(g1, cell, 0), pivot, new_number),
                       moved |-> TRUE, pivot |-> pivot, merged |-> merged]

\* a Cell does not slide into an empty Cell: it only merges
_move_cell_merges_only(g, cell, to) ==
    IF g.number[cell] = 0 THEN [g |-> g, moved |-> FALSE, pivot |-> cell, merged |-> FALSE]
    ELSE LET pivot == _pivot(g, cell, to)
         IN  IF pivot = cell \/ g.number[pivot] = 0
             THEN [g |-> g, moved |-> FALSE, pivot |-> cell, merged |-> FALSE]
             ELSE LET new_number == g.number[cell] + g.number[pivot]
                      g1 == [g EXCEPT !.locked[pivot] = TRUE, !.score = @ + new_number]
                  IN  [g |-> _set_cell(_set_cell(g1, cell, 0), pivot, new_number),
                       moved |-> TRUE, pivot |-> pivot, merged |-> TRUE]

\* the Cell that was left keeps its number
_move_cell_source_kept(g, cell, to) ==
    IF g.number[cell] = 0 THEN [g |-> g, moved |-> FALSE, pivot |-> cell, merged |-> FALSE]
    ELSE LET pivot == _pivot(g, cell, to)
         IN  IF pivot = cell
             THEN [g |-> g, moved |-> FALSE, pivot |-> cell, merged |-> FALSE]
             ELSE LET new_number == g.number[cell] + g.number[pivot]
                      merged == g.number[pivot] # 0
                      g1 == IF merged
                            THEN [g EXCEPT !.locked[pivot] = TRUE,
                                           !.score = @ + new_number]
                            ELSE g
                  IN  [g |-> _set_cell(g1, pivot, new_number),
                       moved |-> TRUE, pivot |-> pivot, merged |-> merged]

\* the Cell that was left gets its number 0 without joining empty_cells
_move_cell_source_not_emptied(g, cell, to) ==
    IF g.number[cell] = 0 THEN [g |-> g, moved |-> FALSE, pivot |-> cell, merged |-> FALSE]
    ELSE LET pivot == _pivot(g, cell, to)
         IN  IF pivot = cell
             THEN [g |-> g, moved |-> FALSE, pivot |-> cell, merged |-> FALSE]
             ELSE LET new_number == g.number[cell] + g.number[pivot]
                      merged == g.number[pivot] # 0
                      g1 == IF merged
                            THEN [g EXCEPT !.locked[pivot] = TRUE,
                                           !.score = @ + new_number]
                            ELSE g
                  IN  [g |-> [_set_cell(g1, pivot, new_number) EXCEPT !.number[cell] = 0],
                       moved |-> TRUE, pivot |-> pivot, merged |-> merged]

\* the grid after the call, whether movement occurred, and the pivot
_move_cell(g, cell, to) ==
    IF g.number[cell] = 0 THEN [g |-> g, moved |-> FALSE, pivot |-> cell, merged |-> FALSE]
    ELSE LET pivot == _pivot(g, cell, to)
         IN  IF pivot = cell
             THEN [g |-> g, moved |-> FALSE, pivot |-> cell, merged |-> FALSE]
             ELSE LET new_number == g.number[cell] + g.number[pivot]
                      merged == g.number[pivot] # 0
                      g1 == IF merged
                            THEN [g EXCEPT !.locked[pivot] = TRUE,
                                           !.score = @ + new_number]
                            ELSE g
                  IN  [g |-> _set_cell(_set_cell(g1, cell, 0), pivot, new_number),
                       moved |-> TRUE, pivot |-> pivot, merged |-> merged]

\* the vectors that lie along the direction, not across it
vectors_along(to) ==
    CASE to = "left" -> rows(FALSE)
      [] to = "right" -> rows(TRUE)
      [] to = "up" -> columns(FALSE)
      [] to = "down" -> columns(TRUE)

\* the vectors farthest from `to` first
vectors_farthest_first(to) ==
    CASE to = "left" -> columns(TRUE)
      [] to = "right" -> columns(FALSE)
      [] to = "up" -> rows(TRUE)
      [] to = "down" -> rows(FALSE)

_vectors_from_Directions(to) ==
    CASE to = "left" -> columns(FALSE)
      [] to = "right" -> columns(TRUE)
      [] to = "up" -> rows(FALSE)
      [] to = "down" -> rows(TRUE)

is_empty(g) == Cardinality(g.empty_cells) = Cardinality(Points)

\* the empty Cells are not looked at first
is_jammed_without_shortcut(g) ==
    ~ \E cell \in Points : \E to \in DirectionSet :
        /\ _neighbor(cell, to) # None
        /\ g.number[cell] = g.number[_neighbor(cell, to)]

\* only the neighbours in the same row are compared
is_jammed_rows_only(g) ==
    IF Cardinality(g.empty_cells) # 0 THEN FALSE
    ELSE ~ \E cell \in Points : \E to \in {"left", "right"} :
             /\ _neighbor(cell, to) # None
             /\ g.number[cell] = g.number[_neighbor(cell, to)]

is_jammed(g) ==
    IF Cardinality(g.empty_cells) # 0 THEN FALSE
    ELSE ~ \E cell \in Points : \E to \in DirectionSet :
             /\ _neighbor(cell, to) # None
             /\ g.number[cell] = g.number[_neighbor(cell, to)]

snapshot_of(g) == g.number

_check_snapshot(snapshot) == \E p \in DOMAIN snapshot : snapshot[p] # 0

\* the snapshot is checked and not appended
store_snapshot_skipped(g, snapshot) ==
    IF ~_check_snapshot(snapshot) THEN [g |-> g, ret |-> "ValueError"]
    ELSE [g |-> g, ret |-> "None"]

\* store_snapshot: ret is "None", or the exception raised
store_snapshot(g, snapshot) ==
    IF ~_check_snapshot(snapshot) THEN [g |-> g, ret |-> "ValueError"]
    ELSE [g |-> [g EXCEPT !.history = Append(@, snapshot)], ret |-> "None"]

\* the locks are left as they are
unlock_skipped(g) == g

\* only the empty Cells are unlocked
unlock_empty_cells_only(g) ==
    [g EXCEPT !.locked = [p \in Points |-> g.locked[p] /\ g.number[p] # 0]]

unlock_all(g) == [g EXCEPT !.locked = NoLocks]

(***************************************************************************)
(* grid.py: the public methods.  Each yields records [g, ret]: the grid    *)
(* when the call ends and what it returned ("None", "True", "False") or    *)
(* the exception it raised; a method that draws at random yields the set   *)
(* of such records.                                                        *)
(***************************************************************************)
Index(point) == point[1] * Side + point[2]

\* the subsets of k members
RECURSIVE KSubsets(_, _)
KSubsets(population, k) ==
    IF k = 0 THEN {{}}
    ELSE UNION {{T \cup {c} : T \in KSubsets({e \in population : Index(e) > Index(c)}, k - 1)}
                : c \in population}

\* a k larger than the population is cut down to it
random_sample_clamped(population, k) ==
    IF k < 0 THEN {}
    ELSE KSubsets(population,
                  IF k > Cardinality(population) THEN Cardinality(population) ELSE k)

\* random.sample(population, k): any k distinct members; no sample at all
\* stands for the ValueError of a k that is negative or larger than the population
random_sample(population, k) ==
    IF k < 0 \/ k > Cardinality(population) THEN {}
    ELSE KSubsets(population, k)

\* _set_cell(cell, values[cell]) for every cell of todo
RECURSIVE SetCells(_, _, _)
SetCells(g, values, todo) ==
    IF todo = {} THEN g
    ELSE LET cell == CHOOSE c \in todo : TRUE
         IN  SetCells(_set_cell(g, cell, values[cell]), values, todo \ {cell})

seed(g, amount) ==
    IF random_sample(g.empty_cells, amount) = {}
    THEN {[g |-> g, ret |-> "ValueError"]}
    ELSE UNION {
        LET nonzero == {c \in sample : g.number[c] # 0}
        IN  IF nonzero # {}
            THEN \* the loop stops at the first of them, after seeding some others
                 UNION {{[g |-> SetCells(g, values, changed), ret |-> "Base2048Error"]
                         : values \in [changed -> SEEDING_VALUES]}
                        : changed \in SUBSET (sample \ nonzero)}
            ELSE IF sample = {}
            THEN {[g |-> g, ret |-> "Base2048Error"]}
            ELSE {LET seeded == SetCells(g, values, sample)
                  IN  store_snapshot(seeded, snapshot_of(seeded))
                  : values \in [sample -> SEEDING_VALUES]}
        : sample \in random_sample(g.empty_cells, amount)}

\* the move phase of drag: _move_cell on order[i], order[i+1], ...
RECURSIVE MoveCells(_, _, _, _)
MoveCells(acc, order, i, to) ==
    IF i > Len(order) THEN acc
    ELSE LET r == _move_cell(acc.g, order[i], to)
         IN  MoveCells(
                 [g |-> r.g,
                  something_moved |-> acc.something_moved \/ r.moved,
                  visited |-> Append(acc.visited, order[i]),
                  moves |-> IF r.moved
                            THEN Append(acc.moves, [cell |-> order[i], pivot |-> r.pivot,
                                                    merged |-> r.merged])
                            ELSE acc.moves],
                 order, i + 1, to)

\* records [g, ret, mid, moves]
drag(g, to) ==
    LET vectors == _vectors_from_Directions(to)
        m == MoveCells([g |-> [g EXCEPT !.attempt = @ + 1],
                        something_moved |-> FALSE, visited |-> <<>>, moves |-> <<>>],
                       chain_from_iterable(vectors), 1, to)
        mid_ == [number |-> m.g.number, locked |-> m.g.locked, visited |-> m.visited]
    IN  IF m.something_moved
        THEN {[g |-> IF s.ret = "None" THEN unlock_all(s.g) ELSE s.g,
               ret |-> IF s.ret = "None" THEN "True" ELSE s.ret,
               mid |-> mid_, moves |-> m.moves]
              : s \in seed([m.g EXCEPT !.cycle = @ + 1], 1)}
        ELSE {[g |-> m.g, ret |-> "False", mid |-> mid_, moves |-> m.moves]}

\* the loop of update_with_snapshot over the items of the snapshot
RECURSIVE UpdateItems(_, _, _)
UpdateItems(g, snapshot, items) ==
    IF items = <<>> THEN [g |-> g, ret |-> "None"]
    ELSE LET point == Head(items)
             unlocked == [g EXCEPT !.locked[point] = FALSE]
         IN  IF point \notin Points THEN [g |-> g, ret |-> "KeyError"]
             ELSE IF ~number_setter_ok(snapshot[point])
             THEN [g |-> unlocked, ret |-> "InvalidCellIntError"]
             ELSE UpdateItems(_set_cell(unlocked, point, snapshot[point]),
                              snapshot, Tail(items))

\* snapshot.items(): the snapshots of the model list their points in sorted
\* order, as the ones store_snapshot makes do
snapshot_items(snapshot) ==
    IF DOMAIN snapshot \subseteq Points
    THEN SelectSeq(keys, LAMBDA p : p \in DOMAIN snapshot)
    ELSE sorted_points(DOMAIN snapshot)

update_with_snapshot(g, snapshot) ==
    IF ~_check_snapshot(snapshot) THEN [g |-> g, ret |-> "ValueError"]
    ELSE UpdateItems(g, snapshot, snapshot_items(snapshot))

\* too few snapshots are always ignored
undo_always_ignores(g, ignore_empty) ==
    IF Len(g.history) < 2
    THEN [g |-> g, ret |-> "False"]
    ELSE LET g1 == [g EXCEPT !.history = SubSeq(@, 1, Len(@) - 1)]
             r == update_with_snapshot(g1, g1.history[Len(g1.history)])
         IN  [g |-> r.g, ret |-> IF r.ret = "None" THEN "True" ELSE r.ret]

\* the score is taken back as well
undo_forgets_score(g, ignore_empty) ==
    IF Len(g.history) < 2
    THEN [g |-> g, ret |-> IF ignore_empty THEN "False" ELSE "IndexError"]
    ELSE LET g1 == [g EXCEPT !.history = SubSeq(@, 1, Len(@) - 1), !.score = 0]
             r == update_with_snapshot(g1, g1.history[Len(g1.history)])
         IN  [g |-> r.g, ret |-> IF r.ret = "None" THEN "True" ELSE r.ret]

\* the last snapshot is restored instead of the one before it
undo_restores_last(g, ignore_empty) ==
    IF Len(g.history) < 2
    THEN [g |-> g, ret |-> IF ignore_empty THEN "False" ELSE "IndexError"]
    ELSE LET r == update_with_snapshot(g, g.history[Len(g.history)])
         IN  [g |-> [r.g EXCEPT !.history = SubSeq(@, 1, Len(@) - 1)],
              ret |-> IF r.ret = "None" THEN "True" ELSE r.ret]

\* the snapshot restored is stored once more
undo_stores_again(g, ignore_empty) ==
    IF Len(g.history) < 2
    THEN [g |-> g, ret |-> IF ignore_empty THEN "False" ELSE "IndexError"]
    ELSE LET g1 == [g EXCEPT !.history = SubSeq(@, 1, Len(@) - 1)]
             r == update_with_snapshot(g1, g1.history[Len(g1.history)])
         IN  [g |-> [r.g EXCEPT !.history = Append(@, @[Len(@)])],
              ret |-> IF r.ret = "None" THEN "True" ELSE r.ret]

\* the counters go back with the numbers
undo_rewinds_counters(g, ignore_empty) ==
    IF Len(g.history) < 2
    THEN [g |-> g, ret |-> IF ignore_empty THEN "False" ELSE "IndexError"]
    ELSE LET g1 == [g EXCEPT !.history = SubSeq(@, 1, Len(@) - 1),
                             !.attempt = IF @ > 0 THEN @ - 1 ELSE 0,
                             !.cycle = IF @ > 0 THEN @ - 1 ELSE 0]
             r == update_with_snapshot(g1, g1.history[Len(g1.history)])
         IN  [g |-> r.g, ret |-> IF r.ret = "None" THEN "True" ELSE r.ret]

undo(g, ignore_empty) ==
    IF Len(g.history) < 2
    THEN [g |-> g, ret |-> IF ignore_empty THEN "False" ELSE "IndexError"]
    ELSE LET g1 == [g EXCEPT !.history = SubSeq(@, 1, Len(@) - 1)]
             r == update_with_snapshot(g1, g1.history[Len(g1.history)])
         IN  [g |-> r.g, ret |-> IF r.ret = "None" THEN "True" ELSE r.ret]

\* the snapshots are kept
reset_keeps_history(g) ==
    LET g1 == [g EXCEPT !.attempt = 0, !.cycle = 0, !.score = 0]
    IN  [g |-> SetCells(unlock_all(g1), ZeroBoard, Points), ret |-> "None"]

reset(g) ==
    LET g1 == [g EXCEPT !.attempt = 0, !.cycle = 0, !.score = 0]
        g2 == SetCells(unlock_all(g1), ZeroBoard, Points)
    IN  [g |-> [g2 EXCEPT !.history = <<>>], ret |-> "None"]

\* the snapshot is not stored in the new grid
new_from_snapshot_unstored(snapshot) ==
    update_with_snapshot(NewGrid, snapshot)

\* a snapshot of Side * Side points is assumed, so that the new grid has Side
new_from_snapshot(snapshot) ==
    LET r == update_with_snapshot(NewGrid, snapshot)
    IN  IF r.ret # "None" THEN r ELSE store_snapshot(r.g, snapshot)

(***************************************************************************)
(* The boards drawn as inputs: a jammed board of alternating 2s and 4s     *)
(* with one row replaced by any line over Values.                          *)
(***************************************************************************)
Values == {0} \cup {Pow2(k) : k \in 1 .. MaxPower}
Checker == [p \in Points |-> IF (p[1] + p[2]) % 2 = 0 THEN 2 ELSE 4]
ReplaceRow(board, y, line) == [p \in Points |-> IF p[2] = y THEN line[p[1]] ELSE board[p]]
RowBoards == {ReplaceRow(Checker, y, line) : y \in Axis, line \in [Axis -> Values]}

\* _AUTO_NUMBERS = NUMBERS[:-1] = 2, 4, ..., 1024
_AUTO_NUMBERS == {Pow2(k) : k \in 1 .. 10}

\* the snapshots passed to update_with_snapshot and new_from_snapshot
Snapshots ==
    {ZeroBoard, Checker,
     ReplaceRow(Checker, 0, [x \in Axis |-> IF x < 2 THEN 2 ELSE 0])}

\* the mappings passed to store_snapshot: a board without tiles, a board
\* and a mapping of one point only
StoredSnapshots ==
    {ZeroBoard, Checker, [p \in {<<0, 0>>} |-> 2]}

\* the outcomes of _autofill that the model draws
AutoBoards ==
    {b \in {Checker, ReplaceRow(Checker, 0, [x \in Axis |-> 2])}
       : \A p \in Points : b[p] \in _AUTO_NUMBERS}

autofill(g, no_jamming) ==
    {LET filled == SetCells(unlock_all(g), b, Points)
     IN  store_snapshot(filled, snapshot_of(filled))
     : b \in {a \in AutoBoards :
                no_jamming => ~is_jammed(SetCells(unlock_all(g), a, Points))}}

(***************************************************************************)
(* basefrontend.py: Base2048Frontend.  The hooks are those of a concrete   *)
(* frontend and do nothing to the grid; `hooks` lists the outcome hooks    *)
(* called by the running play2048.                                         *)
(***************************************************************************)
DefaultGoal == 2048

RECURSIVE MaxOf(_)
MaxOf(numbers) ==
    IF numbers = {} THEN 0
    ELSE LET n == CHOOSE m \in numbers : TRUE
             rest == MaxOf(numbers \ {n})
         IN  IF n > rest THEN n ELSE rest

largest(g) == MaxOf({g.number[p] : p \in Points})

\* Base2048Frontend.__init__ with a goal that is2048like accepts
NewFrontend(goal) ==
    [pc |-> "idle", goal |-> goal, victory |-> FALSE, is_jammed |-> FALSE,
     player_quit |-> FALSE, hooks |-> <<>>, choices |-> 0, choice |-> "none",
     victory_before |-> FALSE, calls |-> <<>>]

\* f after it called the hooks or functions named, in that order
Calling(f, names) == [f EXCEPT !.calls = @ \o names]

\* after_play is not called once the player quit
after_loop_quit_skips_after_play(f) ==
    LET f1 == IF f.player_quit THEN f ELSE Calling(f, <<"after_play">>)
        called(hook) == [f |-> [Calling(f1, <<hook>>) EXCEPT !.pc = "done",
                                                           !.hooks = Append(@, hook)],
                         ret |-> "None"]
    IN  IF f.player_quit THEN called("on_player_quit")
        ELSE IF f.victory
        THEN IF f.is_jammed THEN called("on_player_overvictory")
             ELSE called("on_player_victory")
        ELSE IF ~f.is_jammed THEN [f |-> [f1 EXCEPT !.pc = "raised"], ret |-> "AssertionError"]
        ELSE called("on_player_loss")

\* play2048 after its loop: records [f, ret]
after_loop(f) ==
    LET f1 == Calling(f, <<"after_play">>)
        called(hook) == [f |-> [Calling(f1, <<hook>>) EXCEPT !.pc = "done",
                                                           !.hooks = Append(@, hook)],
                         ret |-> "None"]
    IN  IF f.player_quit THEN called("on_player_quit")
        ELSE IF f.victory
        THEN IF f.is_jammed THEN called("on_player_overvictory")
             ELSE called("on_player_victory")
        ELSE IF ~f.is_jammed THEN [f |-> [f1 EXCEPT !.pc = "raised"], ret |-> "AssertionError"]
        ELSE called("on_player_loss")

\* victory is left as it is
restart_keeps_victory(g, f) ==
    {[g |-> s.g, f |-> f, ret |-> s.ret] : s \in seed(reset(g).g, STARTING_AMOUNT)}

\* Base2048Frontend.restart: records [g, f, ret]
restart(g, f) ==
    {[g |-> s.g, f |-> [f EXCEPT !.victory = FALSE], ret |-> s.ret]
     : s \in seed(reset(g).g, STARTING_AMOUNT)}

\* the grid is not tested for being empty
play2048_start_any_grid(g, f) ==
    LET f0 == [f EXCEPT !.player_quit = FALSE, !.hooks = <<>>, !.choices = 0,
                        !.choice = "none", !.victory_before = f.victory,
                        !.calls = <<"on_play">>, !.is_jammed = is_jammed(g)]
    IN  IF f0.is_jammed THEN [f |-> [f0 EXCEPT !.pc = "raised"], ret |-> "Base2048Error"]
        ELSE [f |-> [f0 EXCEPT !.pc = "loop"], ret |-> "None"]

\* play2048 up to its loop: records [f, ret]
play2048_start(g, f) ==
    LET f0 == [f EXCEPT !.player_quit = FALSE, !.hooks = <<>>, !.choices = 0,
                        !.choice = "none", !.victory_before = f.victory,
                        !.calls = <<"on_play">>]
    IN  IF is_empty(g) THEN [f |-> [f0 EXCEPT !.pc = "raised"], ret |-> "Base2048Error"]
        ELSE LET f1 == [f0 EXCEPT !.is_jammed = is_jammed(g)]
             IN  IF f1.is_jammed
                 THEN [f |-> [f1 EXCEPT !.pc = "raised"], ret |-> "Base2048Error"]
                 ELSE [f |-> [f1 EXCEPT !.pc = "loop"], ret |-> "None"]

\* the loop is left whenever the goal is reached
any_victory(f, g) == largest(g) >= f.goal

\* `not self.victory and grid.largest >= self.goal`
first_victory(f, g) == ~f.victory /\ largest(g) >= f.goal

\* one turn of the loop of play2048, and what follows the loop when the turn
\* leaves it: records [g, f, ret].  choice is what choice_function returned
\* or raised.
play2048_attempt(g, f, choice) ==
    LET f1 == [f EXCEPT !.choices = @ + 1, !.choice = choice, !.victory_before = f.victory,
                        !.calls = @ \o <<"on_attempt", "choice_function">>]
        f1d == Calling(f1, <<"after_choice", "drag">>)
    IN  IF choice = "KeyboardInterrupt"
        THEN {[g |-> g, f |-> [f1 EXCEPT !.pc = "returned"], ret |-> "None"]}
        ELSE IF choice = "EOFError"
        THEN {LET a == after_loop([f1 EXCEPT !.player_quit = TRUE])
              IN  [g |-> g, f |-> a.f, ret |-> a.ret]}
        ELSE {LET dragged == d.ret = "True"
                  f2 == [f1d EXCEPT !.is_jammed = IF dragged THEN is_jammed(d.g) ELSE @,
                                    !.calls = @ \o <<IF dragged THEN "after_change"
                                                     ELSE "after_nochange",
                                                     "after_attempt">>]
                  won == after_loop([f2 EXCEPT !.victory = TRUE])
                  jammed == after_loop(f2)
              IN  IF d.ret \notin {"True", "False"}
                  THEN [g |-> d.g, f |-> [f1d EXCEPT !.pc = "raised"], ret |-> d.ret]
                  ELSE IF first_victory(f2, d.g)
                  THEN [g |-> d.g, f |-> won.f, ret |-> won.ret]
                  ELSE IF f2.is_jammed
                  THEN [g |-> d.g, f |-> jammed.f, ret |-> jammed.ret]
                  ELSE [g |-> d.g, f |-> f2, ret |-> "None"]
              : d \in drag(g, choice)}

(***************************************************************************)
(* The state machine: one action per public call.                          *)
(***************************************************************************)
Self ==
    [number |-> number, locked |-> locked, empty_cells |-> empty_cells,
     history |-> history, attempt |-> attempt, cycle |-> cycle, score |-> score]

Becomes(g) ==
    /\ number' = g.number
    /\ locked' = g.locked
    /\ empty_cells' = g.empty_cells
    /\ history' = g.history
    /\ attempt' = g.attempt
    /\ cycle' = g.cycle
    /\ score' = g.score

\* a call; undo also records the call before it and what that one returned,
\* and seed, drag, undo, autofill and play2048 record in `before` the grid
\* they were called on (a new grid stands there for the other calls)
Call(name, to, amount, flag) ==
    [name |-> name, to |-> to, amount |-> amount, flag |-> flag,
     after |-> "none", after_ret |-> "None", before |-> NewGrid]
\* the call was made on the grid as it is now
On(call) == [call EXCEPT !.before = Self]
FirstCall(name) == Call(name, "none", 0, FALSE)
NoMid == [number |-> ZeroBoard, locked |-> NoLocks, visited |-> <<>>]
\* no IntGameGrid was made
NoIntGrid == <<>>

\* a call other than drag ends with outcome r
Returns(call, r) ==
    /\ Becomes(r.g)
    /\ op' = call
    /\ ret' = r.ret
    /\ pre' = ZeroBoard
    /\ mid' = NoMid
    /\ moves' = <<>>
    /\ frontend' = frontend
    /\ intgrid' = intgrid

Tiles == Points \ empty_cells

\* an exception is not caught: the calls end with the call that raises
Exceptions ==
    {"ValueError", "IndexError", "KeyError", "Base2048Error", "InvalidCellIntError",
     "AssertionError"}
Running == ret \notin Exceptions

Init ==
    /\ number = NewGrid.number
    /\ locked = NewGrid.locked
    /\ empty_cells = NewGrid.empty_cells
    /\ history = NewGrid.history
    /\ attempt = NewGrid.attempt
    /\ cycle = NewGrid.cycle
    /\ score = NewGrid.score
    /\ op = FirstCall("Grid")
    /\ ret = "None"
    /\ pre = ZeroBoard
    /\ mid = NoMid
    /\ moves = <<>>
    /\ frontend = NewFrontend(DefaultGoal)
    /\ intgrid = NoIntGrid

\* Grid(): the caller goes on with a new grid
Construct ==
    /\ Running
    /\ Returns(FirstCall("Grid"), [g |-> NewGrid, ret |-> "None"])

Reset ==
    /\ Running
    /\ Returns(Call("reset", "none", 0, FALSE), reset(Self))

\* sparse grids have many empty cells to draw from; dense ones at most a line
SeedCallable(amount) ==
    \/ Cardinality(Tiles) + amount <= MaxTiles
    \/ Cardinality(empty_cells) <= Side

Seed(amount) ==
    /\ Running
    /\ Len(history) < MaxHistory
    /\ SeedCallable(amount)
    /\ \E r \in seed(Self, amount) : Returns(On(Call("seed", "none", amount, FALSE)), r)

Drag(to) ==
    /\ Running
    /\ attempt < MaxAttempt
    /\ Len(history) < MaxHistory
    /\ \E r \in drag(Self, to) :
         /\ Becomes(r.g)
         /\ op' = On(Call("drag", to, 0, FALSE))
         /\ ret' = r.ret
         /\ pre' = number
         /\ mid' = r.mid
         /\ moves' = r.moves
         /\ frontend' = frontend
         /\ intgrid' = intgrid

Undo(ignore_empty) ==
    /\ Running
    /\ LET r == undo(Self, ignore_empty)
       IN  /\ Becomes(r.g)
           /\ op' = [On(Call("undo", "none", 0, ignore_empty))
                       EXCEPT !.after = op.name, !.after_ret = ret]
           /\ ret' = r.ret
           /\ UNCHANGED <<pre, mid, moves, frontend, intgrid>>

\* the property is_jammed is read
IsJammed ==
    /\ Running
    /\ Len(history) < MaxHistory
    /\ Returns(Call("is_jammed", "none", 0, FALSE),
               [g |-> Self, ret |-> IF is_jammed(Self) THEN "True" ELSE "False"])

\* store_snapshot(): the snapshot defaults to the numbers of the grid
StoreSnapshot ==
    /\ Running
    /\ Len(history) < MaxHistory
    /\ Returns(Call("store_snapshot", "none", 0, FALSE),
               store_snapshot(Self, snapshot_of(Self)))

\* store_snapshot(snapshot); the call records that the argument was given
StoreGivenSnapshot(snapshot) ==
    /\ Running
    /\ Len(history) < MaxHistory
    /\ Returns(Call("store_snapshot", "none", 0, TRUE),
               store_snapshot(Self, snapshot))

Autofill(no_jamming) ==
    /\ Running
    /\ Len(history) < MaxHistory
    /\ \E r \in autofill(Self, no_jamming) :
         Returns(On(Call("autofill", "none", 0, no_jamming)), r)

UpdateWithSnapshot(snapshot) ==
    /\ Running
    /\ Len(history) < MaxHistory
    /\ Returns(Call("update_with_snapshot", "none", 0, FALSE),
               update_with_snapshot(Self, snapshot))

NewFromSnapshot(snapshot) ==
    /\ Running
    /\ Len(history) < MaxHistory
    /\ LET r == new_from_snapshot(snapshot)
       IN  \* a failed call leaves the caller with the grid it had
           Returns(Call("new_from_snapshot", "none", 0, FALSE),
                   IF r.ret = "None" THEN r ELSE [g |-> Self, ret |-> r.ret])

\* Grid.new_from_snapshot of the snapshot of the grid itself; the caller
\* goes on with the new grid, and the call records where its argument came from
RoundTrip ==
    /\ Running
    /\ Len(history) < MaxHistory
    /\ LET r == new_from_snapshot(snapshot_of(Self))
       IN  Returns(Call("new_from_snapshot", "none", 0, TRUE),
                   IF r.ret = "None" THEN r ELSE [g |-> Self, ret |-> r.ret])

Next ==
    \/ Construct
    \/ Reset
    \/ \E amount \in 0 .. MaxSeed : Seed(amount)
    \/ \E to \in DirectionSet : Drag(to)
    \/ \E ignore_empty \in BOOLEAN : Undo(ignore_empty)
    \/ \E no_jamming \in BOOLEAN : Autofill(no_jamming)
    \/ \E snapshot \in Snapshots : UpdateWithSnapshot(snapshot)
    \/ \E snapshot \in Snapshots : NewFromSnapshot(snapshot)

Spec == Init /\ [][Next]_vars

(***************************************************************************)
(* The methods applied to the grids made of the boards drawn as inputs.    *)
(***************************************************************************)
InitBoard ==
    \E board \in RowBoards :
        LET g == new_from_snapshot(board).g
        IN  /\ number = g.number
            /\ locked = g.locked
            /\ empty_cells = g.empty_cells
            /\ history = g.history
            /\ attempt = g.attempt
            /\ cycle = g.cycle
            /\ score = g.score
            /\ op = FirstCall("new_from_snapshot")
            /\ ret = "None"
            /\ pre = ZeroBoard
            /\ mid = NoMid
            /\ moves = <<>>
            /\ frontend = NewFrontend(DefaultGoal)
            /\ intgrid = NoIntGrid

NextBoard ==
    \/ \E amount \in 0 .. MaxSeed : Seed(amount)
    \/ \E to \in DirectionSet : Drag(to)
    \/ IsJammed
    \/ StoreSnapshot
    \/ \E snapshot \in StoredSnapshots : StoreGivenSnapshot(snapshot)
    \/ RoundTrip

SpecBoard == InitBoard /\ [][NextBoard]_vars

(***************************************************************************)
(* _set_cell applied, with any small int, to the Cells of a new grid.      *)
(***************************************************************************)
AssignedValues == (0 - MaxPower) .. (Pow2(MaxPower) + 1)

\* the call records the value in its amount
SetCell(cell, value) ==
    /\ Running
    /\ value # 0 => Cardinality(Tiles \ {cell}) < MaxTiles
    /\ Returns(Call("_set_cell", "none", value, FALSE),
               _set_cell_or_raise(Self, cell, value))

NextCell ==
    \E cell \in Points : \E value \in AssignedValues : SetCell(cell, value)

SpecCell == Init /\ [][NextCell]_vars

(***************************************************************************)
(* either_0_power2 applied to the integers of a range.                     *)
(***************************************************************************)
TestedIntegers == (0 - MaxNegative) .. (_BIG_NUMBER - 1)

InitUtils ==
    /\ number = NewGrid.number
    /\ locked = NewGrid.locked
    /\ empty_cells = NewGrid.empty_cells
    /\ history = NewGrid.history
    /\ attempt = NewGrid.attempt
    /\ cycle = NewGrid.cycle
    /\ score = NewGrid.score
    /\ \E integer \in TestedIntegers : op = Call("input", "none", integer, FALSE)
    /\ ret = "None"
    /\ pre = ZeroBoard
    /\ mid = NoMid
    /\ moves = <<>>
    /\ frontend = NewFrontend(DefaultGoal)
    /\ intgrid = NoIntGrid

\* the call records the integer in its amount
Either0Power2 ==
    /\ op.name = "input"
    /\ op' = Call("either_0_power2", "none", op.amount, FALSE)
    /\ ret' = IF either_0_power2(op.amount) THEN "True" ELSE "False"
    /\ UNCHANGED <<gridvars, pre, mid, moves, frontend, intgrid>>

SpecUtils == InitUtils /\ [][Either0Power2]_vars

(***************************************************************************)
(* play2048 on the grids made of the boards whose first row is any line,   *)
(* and on a new grid.                                                      *)
(***************************************************************************)
PlayBoards == {ReplaceRow(Checker, 0, line) : line \in [Axis -> Values]}
Goals == {Pow2(MaxPower + 1)}
Choices == DirectionSet \cup {"KeyboardInterrupt", "EOFError"}

InitPlay ==
    \E g \in {NewGrid} \cup {new_from_snapshot(board).g : board \in PlayBoards} :
    \E goal \in Goals :
        /\ number = g.number
        /\ locked = g.locked
        /\ empty_cells = g.empty_cells
        /\ history = g.history
        /\ attempt = g.attempt
        /\ cycle = g.cycle
        /\ score = g.score
        /\ op = FirstCall("Base2048Frontend")
        /\ ret = "None"
        /\ pre = ZeroBoard
        /\ mid = NoMid
        /\ moves = <<>>
        /\ frontend = NewFrontend(goal)
        /\ intgrid = NoIntGrid

\* play2048 is called, also again after it ended
Play2048 ==
    /\ Running
    /\ frontend.pc \in {"idle", "done", "returned"}
    /\ LET r == play2048_start(Self, frontend)
       IN  /\ frontend' = r.f
           /\ ret' = r.ret
           /\ op' = On(FirstCall("play2048"))
           /\ UNCHANGED <<gridvars, pre, mid, moves, intgrid>>

\* choice_function returns a direction or raises, and the turn goes on
Choose(choice) ==
    /\ Running
    /\ frontend.pc = "loop"
    /\ choice \in DirectionSet => attempt < MaxPlayAttempt
    /\ \E r \in play2048_attempt(Self, frontend, choice) :
         /\ Becomes(r.g)
         /\ frontend' = r.f
         /\ ret' = r.ret
         /\ op' = On(FirstCall("choice_function"))
         /\ UNCHANGED <<pre, mid, moves, intgrid>>

\* restart is called once a play ended on a jammed grid; what follows the
\* restart is not looked at
Restart ==
    /\ Running
    /\ frontend.pc = "done"
    /\ frontend.is_jammed
    /\ \E r \in restart(Self, frontend) :
         /\ Becomes(r.g)
         /\ frontend' = [r.f EXCEPT !.pc = "restarted"]
         /\ ret' = r.ret
         /\ op' = FirstCall("restart")
         /\ UNCHANGED <<pre, mid, moves, intgrid>>

NextPlay ==
    \/ Play2048
    \/ \E choice \in Choices : Choose(choice)
    \/ Restart

SpecPlay == InitPlay /\ [][NextPlay]_vars

(***************************************************************************)
(* Lookup and assignment on the grids _make_ranged builds (test.py), with  *)
(* Points, ints, Ellipsis and slices as keys.                              *)
(***************************************************************************)
MaxWidth == 3      \* the grids under test are 2 .. MaxWidth wide
MaxHeight == 3     \* and 2 .. MaxHeight high

\* the selectors of one axis: Ellipsis, the ints from -1 to the largest size
\* and the slices with these starts, stops and steps
Selectors(size) ==
    {Ellipsis} \cup {IntSel(i) : i \in -1 .. size}
    \cup {slice(start, stop, step) : start \in {NoInt, {0}, {1}, {size}},
                                     stop \in {NoInt, {0}, {2}},
                                     step \in {NoInt, {2}, {-1}}}
IndexKeys ==
    {PointKey(x, y) : x \in 0 .. MaxWidth, y \in 0 .. MaxHeight}
    \cup {IndexKey(<<x>>) : x \in Selectors(MaxWidth)}
    \cup {IndexKey(<<x, y>>) : x \in Selectors(MaxWidth), y \in Selectors(MaxHeight)}

\* the values assigned: an int, and the tuples of 0 .. MaxHeight ints
AssignedItems(length) == [i \in 1 .. length |-> _BIG_NUMBER + i]
AssignedTo ==
    {Scalar(_BIG_NUMBER)} \cup {Container(AssignedItems(n)) : n \in 0 .. MaxHeight}

\* a call on the IntGameGrid: its name, its arguments, what it returned and
\* the mapping of the grid when it was made
IndexCall(name, key, value, got) ==
    [name |-> name, key |-> key, value |-> value, got |-> got, before |-> intgrid]

InitIndex ==
    /\ number = NewGrid.number
    /\ locked = NewGrid.locked
    /\ empty_cells = NewGrid.empty_cells
    /\ history = NewGrid.history
    /\ attempt = NewGrid.attempt
    /\ cycle = NewGrid.cycle
    /\ score = NewGrid.score
    /\ \E cols \in 2 .. MaxWidth : \E rows_ \in 2 .. MaxHeight :
         intgrid = _make_ranged(cols, rows_)
    /\ op = IndexCall("_make_ranged", IndexKey(<<Ellipsis>>), Scalar(0), Raised("None"))
    /\ ret = "None"
    /\ pre = ZeroBoard
    /\ mid = NoMid
    /\ moves = <<>>
    /\ frontend = NewFrontend(DefaultGoal)

\* grid[key], for any key, on the grid as it was made
GetItem ==
    /\ op.name = "_make_ranged"
    /\ \E key \in IndexKeys :
         /\ op' = IndexCall("__getitem__", key, Scalar(0), __getitem__(intgrid, key))
         /\ ret' = __getitem__(intgrid, key).ret
    /\ UNCHANGED <<gridvars, pre, mid, moves, frontend, intgrid>>

\* grid[key] = value, for any key and value, on the grid as it was made; the
\* call records what grid[key] gives afterwards
SetItem ==
    /\ op.name = "_make_ranged"
    /\ \E key \in IndexKeys : \E value \in AssignedTo :
         LET r == __setitem__(intgrid, key, value)
         IN  /\ intgrid' = r.mapping
             /\ ret' = r.ret
             /\ op' = IndexCall("__setitem__", key, value, __getitem__(r.mapping, key))
    /\ UNCHANGED <<gridvars, pre, mid, moves, frontend>>

NextIndex ==
    \/ GetItem
    \/ SetItem

SpecIndex == InitIndex /\ [][NextIndex]_vars

(***************************************************************************)
(* _neighbor applied to every Cell of the grid, in every direction.        *)
(***************************************************************************)
\* a call of _neighbor: its arguments and the Cell it returned, if any
NeighborCall(name, cell, to, got) == [name |-> name, cell |-> cell, to |-> to, got |-> got]

InitNeighbor ==
    /\ number = NewGrid.number
    /\ locked = NewGrid.locked
    /\ empty_cells = NewGrid.empty_cells
    /\ history = NewGrid.history
    /\ attempt = NewGrid.attempt
    /\ cycle = NewGrid.cycle
    /\ score = NewGrid.score
    /\ \E cell \in Points : \E to \in DirectionSet :
         op = NeighborCall("input", cell, to, None)
    /\ ret = "None"
    /\ pre = ZeroBoard
    /\ mid = NoMid
    /\ moves = <<>>
    /\ frontend = NewFrontend(DefaultGoal)
    /\ intgrid = NoIntGrid

\* both exceptions are caught, so that the call always returns
Neighbor ==
    /\ op.name = "input"
    /\ op' = NeighborCall("_neighbor", op.cell, op.to, _neighbor(op.cell, op.to))
    /\ ret' = "None"
    /\ UNCHANGED <<gridvars, pre, mid, moves, frontend, intgrid>>

SpecNeighbor == InitNeighbor /\ [][Neighbor]_vars

(***************************************************************************)
(* The grids reached from restart() by drag and undo.                      *)
(***************************************************************************)
InitRestart ==
    \E r \in restart(NewGrid, NewFrontend(DefaultGoal)) :
        /\ number = r.g.number
        /\ locked = r.g.locked
        /\ empty_cells = r.g.empty_cells
        /\ history = r.g.history
        /\ attempt = r.g.attempt
        /\ cycle = r.g.cycle
        /\ score = r.g.score
        /\ op = FirstCall("restart")
        /\ ret = r.ret
        /\ pre = ZeroBoard
        /\ mid = NoMid
        /\ moves = <<>>
        /\ frontend = r.f
        /\ intgrid = NoIntGrid

NextRestart ==
    \/ \E to \in DirectionSet : Drag(to)
    \/ \E ignore_empty \in BOOLEAN : Undo(ignore_empty)

SpecRestart == InitRestart /\ [][NextRestart]_vars

(***************************************************************************)
(* Index assignment on a Grid: grid[point] = value and grid[x, y] = value. *)
(***************************************************************************)
AssignedGrids ==
    {NewGrid} \cup {new_from_snapshot(board).g : board \in Snapshots \ {ZeroBoard}}

GridValues ==
    {IntValue(n) : n \in {0, 2, 4}} \cup {CellValue(n) : n \in {0, 2}}

\* a call of __setitem__: its key, as a Point or as a pair, and its value
AssignCall(name, key, value) == [name |-> name, key |-> key, value |-> value]

InitAssign ==
    \E g \in AssignedGrids :
        /\ number = g.number
        /\ locked = g.locked
        /\ empty_cells = g.empty_cells
        /\ history = g.history
        /\ attempt = g.attempt
        /\ cycle = g.cycle
        /\ score = g.score
        /\ \E point \in Points : \E is_point \in BOOLEAN : \E value \in GridValues :
             op = AssignCall("input", [is_point |-> is_point, point |-> point], value)
        /\ ret = "None"
        /\ pre = ZeroBoard
        /\ mid = NoMid
        /\ moves = <<>>
        /\ frontend = NewFrontend(DefaultGoal)
        /\ intgrid = NoIntGrid

GridSetItem ==
    /\ op.name = "input"
    /\ LET r == Grid__setitem__(Self, op.key, op.value)
       IN  /\ Becomes(r.g)
           /\ ret' = r.ret
    /\ op' = AssignCall("__setitem__", op.key, op.value)
    /\ UNCHANGED <<pre, mid, moves, frontend, intgrid>>

SpecAssign == InitAssign /\ [][GridSetItem]_vars

(***************************************************************************)
(* update_with_snapshot with snapshots that it accepts and that it rejects.*)
(***************************************************************************)
\* a value that no Cell accepts, and one point beyond each axis
BadValues == {3, -2}
OutsidePoints == {<<Side, 0>>, <<0, Side>>}

GivenSnapshots ==
    Snapshots
    \cup {[Checker EXCEPT ![p] = v] : p \in Points, v \in BadValues}
    \cup {[p \in Points \cup {q} |-> IF p = q THEN 2 ELSE Checker[p]] : q \in OutsidePoints}

InitSnapshot ==
    \E g \in AssignedGrids :
        /\ number = g.number
        /\ locked = g.locked
        /\ empty_cells = g.empty_cells
        /\ history = g.history
        /\ attempt = g.attempt
        /\ cycle = g.cycle
        /\ score = g.score
        /\ \E snapshot \in GivenSnapshots : op = [name |-> "input", snapshot |-> snapshot]
        /\ ret = "None"
        /\ pre = ZeroBoard
        /\ mid = NoMid
        /\ moves = <<>>
        /\ frontend = NewFrontend(DefaultGoal)
        /\ intgrid = NoIntGrid

UpdateWithGivenSnapshot ==
    /\ op.name = "input"
    /\ LET r == update_with_snapshot(Self, op.snapshot)
       IN  /\ Becomes(r.g)
           /\ ret' = r.ret
    /\ op' = [name |-> "update_with_snapshot", snapshot |-> op.snapshot]
    /\ UNCHANGED <<pre, mid, moves, frontend, intgrid>>

SpecSnapshot == InitSnapshot /\ [][UpdateWithGivenSnapshot]_vars

(***************************************************************************)
(* grid == other, for two Grids in states that differ.                     *)
(***************************************************************************)
\* the Cells by number as well as by place
Cell__eq__by_number(cell, other) == cell.point = other.point /\ cell.number = other.number

\* Cell.__eq__, for two Cells
Cell__eq__(cell, other) == cell.point = other.point

\* the mapping of a Grid: at each Point the Cell made for it by __init__,
\* with its number and its lock
mapping_of(g) ==
    [p \in Points |-> [point |-> p, number |-> g.number[p], is_locked |-> g.locked[p]]]

\* BaseGameGrid.__eq__ for two Grids: the equality of two dicts, which have
\* the same keys and at each key values that are equal
Grid__eq__(g, other) ==
    /\ DOMAIN mapping_of(g) = DOMAIN mapping_of(other)
    /\ \A p \in DOMAIN mapping_of(g) : Cell__eq__(mapping_of(g)[p], mapping_of(other)[p])

\* two grids are made; each may be dragged before the two are compared
InitEq ==
    \E g \in AssignedGrids :
        /\ number = g.number
        /\ locked = g.locked
        /\ empty_cells = g.empty_cells
        /\ history = g.history
        /\ attempt = g.attempt
        /\ cycle = g.cycle
        /\ score = g.score
        /\ \E other \in AssignedGrids : op = [name |-> "input", other |-> other]
        /\ ret = "None"
        /\ pre = ZeroBoard
        /\ mid = NoMid
        /\ moves = <<>>
        /\ frontend = NewFrontend(DefaultGoal)
        /\ intgrid = NoIntGrid

\* the grid on the left of == is dragged
DragSelf(to) ==
    /\ op.name = "input"
    /\ attempt < MaxAttempt
    /\ \E d \in drag(Self, to) :
         /\ Becomes(d.g)
         /\ pre' = number
         /\ mid' = d.mid
         /\ moves' = d.moves
    /\ UNCHANGED <<op, ret, frontend, intgrid>>

\* the grid on the right of == is dragged; it is compared after the drag or
\* in the middle of it, when seed is about to be called
DragOther(to) ==
    /\ op.name = "input"
    /\ op.other.attempt < MaxAttempt
    /\ \E d \in drag(op.other, to) : \E in_drag \in BOOLEAN :
         op' = [op EXCEPT !.other =
                   IF in_drag /\ d.ret = "True"
                   THEN [d.g EXCEPT !.number = d.mid.number,
                                    !.locked = d.mid.locked,
                                    !.empty_cells = {p \in Points : d.mid.number[p] = 0},
                                    !.history = op.other.history]
                   ELSE d.g]
    /\ UNCHANGED <<gridvars, ret, pre, mid, moves, frontend, intgrid>>

Equals ==
    /\ op.name = "input"
    /\ op' = [name |-> "__eq__", other |-> op.other]
    /\ ret' = IF Grid__eq__(Self, op.other) THEN "True" ELSE "False"
    /\ UNCHANGED <<gridvars, pre, mid, moves, frontend, intgrid>>

NextEq ==
    \/ \E to \in DirectionSet : DragSelf(to)
    \/ \E to \in DirectionSet : DragOther(to)
    \/ Equals

SpecEq == InitEq /\ [][NextEq]_vars

(***************************************************************************)
(* The claims.                                                             *)
(***************************************************************************)
\* the k-th line parallel to `to`, its points listed from the target edge
LineTowards(to, k) ==
    [i \in 1 .. Side |->
        CASE to = "left" -> <<i - 1, k>>
          [] to = "right" -> <<Side - i, k>>
          [] to = "up" -> <<k, i - 1>>
          [] to = "down" -> <<k, Side - i>>]

NumbersOn(board, line) == [i \in 1 .. Len(line) |-> board[line[i]]]

\* adjacent equal tiles become one, scanning from the target edge
RECURSIVE MergePairs(_)
MergePairs(tiles) ==
    IF Len(tiles) = 0 THEN <<>>
    ELSE IF Len(tiles) >= 2 /\ tiles[1] = tiles[2]
    THEN <<2 * tiles[1]>> \o MergePairs(SubSeq(tiles, 3, Len(tiles)))
    ELSE <<tiles[1]>> \o MergePairs(Tail(tiles))

\* the 2048 collapse of a line of numbers towards its first position
Collapse(numbers) ==
    LET packed == MergePairs(SelectSeq(numbers, LAMBDA n : n # 0))
    IN  [i \in 1 .. Len(numbers) |-> IF i <= Len(packed) THEN packed[i] ELSE 0]

\* C1: the move phase of drag(d) leaves every line parallel to d equal to the
\* 2048 collapse of that line towards the target edge: the tiles packed in
\* their order, adjacent equal tiles merged once, scanning from that edge.
C1_MovePhaseCollapses ==
    op.name = "drag" =>
        \A k \in Axis :
            NumbersOn(mid.number, LineTowards(op.to, k))
                = Collapse(NumbersOn(pre, LineTowards(op.to, k)))

\* a drag that merged twice in one line: 2 2 2 2 became 4 4 0 0
C1_Witness ==
    /\ op.name = "drag"
    /\ \E k \in Axis :
         /\ NumbersOn(pre, LineTowards(op.to, k)) = <<2, 2, 2, 2>>
         /\ NumbersOn(mid.number, LineTowards(op.to, k)) = <<4, 4, 0, 0>>

\* C2: within one drag, a cell that received a merge is not the pivot of a
\* second merge and does not move: no merged tile merges again.
C2_MergedCellStays ==
    op.name = "drag" =>
        \A i \in 1 .. Len(moves) : \A j \in 1 .. Len(moves) :
            (i < j /\ moves[i].merged) =>
                /\ moves[j].pivot # moves[i].pivot
                /\ moves[j].cell # moves[i].pivot

\* a tile came to rest right behind a merged tile of its own number
C2_Witness ==
    /\ op.name = "drag"
    /\ \E i \in 1 .. Len(moves) : \E j \in 1 .. Len(moves) :
         /\ i < j
         /\ moves[i].merged
         /\ ~moves[j].merged
         /\ _neighbor(moves[j].pivot, op.to) = moves[i].pivot
         /\ mid.number[moves[j].pivot] = mid.number[moves[i].pivot]

\* C3: when drag returns false, attempt grew by 1 and cycle, score, history,
\* every number, every lock and empty_cells are as they were.
C3_DragFalseFrame ==
    (op.name = "drag" /\ ret = "False") =>
        /\ attempt = op.before.attempt + 1
        /\ cycle = op.before.cycle
        /\ score = op.before.score
        /\ history = op.before.history
        /\ number = op.before.number
        /\ locked = op.before.locked
        /\ empty_cells = op.before.empty_cells

\* a drag returned false on a grid that holds tiles and an empty Cell
C3_Witness ==
    /\ op.name = "drag"
    /\ ret = "False"
    /\ Tiles # {}
    /\ empty_cells # {}

\* C4: when drag returns true, attempt and cycle grew by 1, exactly one Cell
\* that the move phase left empty holds 2 or 4 and no other Cell differs from
\* the move phase's result, one snapshot equal to the board was appended to
\* history, and every Cell is unlocked.
C4_DragTrueEffect ==
    (op.name = "drag" /\ ret = "True") =>
        /\ attempt = op.before.attempt + 1
        /\ cycle = op.before.cycle + 1
        /\ \E c \in Points :
             /\ mid.number[c] = 0
             /\ number[c] \in {2, 4}
             /\ \A p \in Points \ {c} : number[p] = mid.number[p]
        /\ history = Append(op.before.history, number)
        /\ \A p \in Points : ~locked[p]

\* a drag returned true after a move phase that locked a Cell
C4_Witness ==
    /\ op.name = "drag"
    /\ ret = "True"
    /\ \E p \in Points : mid.locked[p]

\* C5 as stated: after a drag that returned true, undo() returns true and
\* every number is what it was just before the drag, for any grid.
C5_UndoRevertsDragOfAnyGrid ==
    [][(op.name = "drag" /\ ret = "True" /\ op'.name = "undo") =>
          (ret' = "True" /\ number' = pre)]_vars

\* C5, amended: the same, for a grid whose last snapshot, when the drag
\* began, was its board.
C5_UndoRevertsDrag ==
    (/\ op.name = "undo"
     /\ op.after = "drag"
     /\ op.after_ret = "True"
     /\ Len(op.before.history) >= 2
     /\ op.before.history[Len(op.before.history) - 1] = pre) =>
        (ret = "True" /\ number = pre)

\* an undo right after a drag that merged brought the numbers back
C5_Witness ==
    /\ op.name = "undo"
    /\ op.after = "drag"
    /\ op.after_ret = "True"
    /\ ret = "True"
    /\ number = pre
    /\ \E p \in Points : mid.locked[p]

\* C6: with fewer than 2 snapshots, undo(ignore_empty=True) returns false and
\* undo(ignore_empty=False) raises; numbers, locks, history, counters and
\* score are as they were.
C6_UndoTooFewSnapshots ==
    (op.name = "undo" /\ Len(op.before.history) < 2) =>
        /\ ret = IF op.flag THEN "False" ELSE "IndexError"
        /\ Self = op.before

\* undo(ignore_empty=False) raised on a grid with tiles and one snapshot
C6_Witness ==
    /\ op.name = "undo"
    /\ ~op.flag
    /\ ret = "IndexError"
    /\ Len(history) = 1
    /\ Tiles # {}

\* C7: after construction and after every completed call, empty_cells is
\* the set of the Cells whose number is 0.
C7_EmptyCellsExact ==
    Running => empty_cells = {p \in Points : number[p] = 0}

\* a successful undo emptied Cells that held tiles
C7_Witness ==
    /\ op.name = "undo"
    /\ ret = "True"
    /\ op.after = "drag"
    /\ \E p \in Points : number[p] = 0 /\ mid.number[p] # 0

Adjacent(p, q) ==
    \/ p[1] = q[1] /\ (p[2] = q[2] + 1 \/ q[2] = p[2] + 1)
    \/ p[2] = q[2] /\ (p[1] = q[1] + 1 \/ q[1] = p[1] + 1)

NoEmptyCell == \A p \in Points : number[p] # 0
NoEqualPair == \A p \in Points : \A q \in Points : Adjacent(p, q) => number[p] # number[q]

\* C8: is_jammed is false when a Cell is empty; when none is, it is true
\* exactly if no two adjacent Cells hold the same number.
C8_IsJammedMeaning ==
    op.name = "is_jammed" =>
        /\ ~NoEmptyCell => ret = "False"
        /\ NoEmptyCell => (ret = "True" <=> NoEqualPair)

\* is_jammed was read as true
C8_Witness ==
    /\ op.name = "is_jammed"
    /\ ret = "True"

NoLock == \A p \in Points : ~locked[p]
NoDragMoves == \A to \in DirectionSet : \A r \in drag(Self, to) : r.ret = "False"

\* C9 as stated: on every board with no lock, is_jammed is true exactly if
\* drag would return false in each of the four directions.
C9_JammedIffNoMoveOnAnyBoard ==
    NoLock => (is_jammed(Self) <=> NoDragMoves)

\* C9, amended: the same, on every board that holds at least one tile.
C9_JammedIffNoMove ==
    (NoLock /\ \E p \in Points : number[p] # 0) => (is_jammed(Self) <=> NoDragMoves)

\* a drag returned false on a jammed grid
C9_Witness ==
    /\ op.name = "drag"
    /\ ret = "False"
    /\ is_jammed(Self)
    /\ NoDragMoves

\* C10: seed(amount) with more than the empty Cells fails, and the numbers,
\* empty_cells and history are as they were.
C10_SeedTooMany ==
    (op.name = "seed" /\ op.amount > Cardinality(op.before.empty_cells)) =>
        /\ ret \in Exceptions
        /\ number = op.before.number
        /\ empty_cells = op.before.empty_cells
        /\ history = op.before.history

\* seed(2) failed on a grid with one empty Cell
C10_Witness ==
    /\ op.name = "seed"
    /\ op.amount = 2
    /\ ret = "ValueError"
    /\ Cardinality(empty_cells) = 1

\* C11: a seed(amount) that succeeds, with 1 <= amount <= the empty Cells,
\* changes exactly amount Cells, each empty before and 2 or 4 after, and
\* appends one snapshot, the board after the seeding, to history.
C11_SeedEffect ==
    (/\ op.name = "seed"
     /\ ret = "None"
     /\ 1 <= op.amount
     /\ op.amount <= Cardinality(op.before.empty_cells)) =>
        LET changed == {p \in Points : number[p] # op.before.number[p]}
        IN  /\ Cardinality(changed) = op.amount
            /\ \A p \in changed : op.before.number[p] = 0 /\ number[p] \in {2, 4}
            /\ history = Append(op.before.history, number)

\* seed(2) put a 2 and a 4 on a grid that had more than two empty Cells
C11_Witness ==
    /\ op.name = "seed"
    /\ op.amount = 2
    /\ ret = "None"
    /\ Cardinality(empty_cells) >= 1
    /\ Len(history) = 2
    /\ \E p \in Points : \E q \in Points :
         /\ history[2][p] = 2 /\ history[1][p] = 0
         /\ history[2][q] = 4 /\ history[1][q] = 0

\* C12 as stated: right after Grid() check_integrity succeeds and the empty
\* Cells are Side * Side - STARTING_AMOUNT.
C12_NewGridHoldsStartingTiles ==
    op.name = "Grid" =>
        /\ check_integrity
        /\ Cardinality(empty_cells) = Side * Side - STARTING_AMOUNT

\* C12, amended: right after Grid() check_integrity succeeds and every
\* Cell is empty: the empty Cells are Side * Side and no Cell holds a tile.
C12_NewGridIsEmpty ==
    op.name = "Grid" =>
        /\ check_integrity
        /\ Cardinality(empty_cells) = Side * Side
        /\ \A p \in Points : number[p] = 0

\* a grid was constructed
C12_Witness ==
    /\ op.name = "Grid"
    /\ ret = "None"
    /\ empty_cells = Points
    /\ history = <<>>

\* C13 as stated: history is never empty once a Grid is constructed.
C13_HistoryNeverEmpty ==
    Len(history) >= 1

\* C13, amended: history is empty right after Grid() and after reset; it
\* is not empty after a seed, an autofill or a new_from_snapshot that
\* returned, nor after a drag or an undo that returned true.
C13_HistoryEmptyOnlyWhenNew ==
    /\ op.name \in {"Grid", "reset"} => history = <<>>
    /\ (\/ op.name \in {"seed", "autofill", "new_from_snapshot"} /\ ret = "None"
        \/ op.name \in {"drag", "undo"} /\ ret = "True") => Len(history) >= 1

\* a grid was reset
C13_Witness ==
    /\ op.name = "reset"
    /\ ret = "None"
    /\ history = <<>>
    /\ attempt = 0

\* C14: every snapshot of history maps every Point of the board to a number
\* and holds a number other than 0.
C14_SnapshotsComplete ==
    \A i \in 1 .. Len(history) :
        /\ DOMAIN history[i] = Points
        /\ \E p \in Points : history[i][p] # 0

\* C15: a drag, a seed, an undo or an autofill leaves score at least what
\* it was.
C15_ScoreNeverDecreases ==
    op.name \in {"drag", "seed", "undo", "autofill"} => score >= op.before.score

\* an undo took back a drag that had merged tiles, and the score stayed
C15_Witness ==
    /\ op.name = "undo"
    /\ ret = "True"
    /\ op.after = "drag"
    /\ op.after_ret = "True"
    /\ score > 0

ZeroOrPower2(n) == n = 0 \/ \E k \in 0 .. WordBits : n = Pow2(k)

\* C16: every Cell's number is 0 or a power of 2, and assigning a number
\* that is negative, or neither 0 nor a power of 2, fails and leaves the
\* numbers as they were.
C16_NumbersZeroOrPower2 ==
    [][/\ \A p \in Points : ZeroOrPower2(number'[p])
       /\ (op'.name = "_set_cell" /\ ~ZeroOrPower2(op'.amount)) =>
            /\ ret' = "InvalidCellIntError"
            /\ number' = number]_vars

\* a negative number was refused by a grid that holds tiles
C16_Witness ==
    /\ op.name = "_set_cell"
    /\ op.amount < 0
    /\ ret = "InvalidCellIntError"
    /\ Tiles # {}

\* C17: either_0_power2(n) is true exactly when n is 0 or a power of 2
\* (1 included); it is false for every negative n.
C17_Either0Power2 ==
    op.name = "either_0_power2" =>
        /\ ret = "True" <=> ZeroOrPower2(op.amount)
        /\ op.amount < 0 => ret = "False"
        /\ (0 <= op.amount /\ op.amount < _BIG_NUMBER) =>
             (ret = "True" <=> op.amount \in {0, 1, 2, 4, 8, 16, 32, 64, 128, 256, 512,
                                              1024, 2048})

\* either_0_power2(-2) was false
C17_Witness ==
    /\ op.name = "either_0_power2"
    /\ op.amount = 0 - 2
    /\ ret = "False"

\* C18: for a grid that holds a tile, new_from_snapshot of its snapshot
\* yields a grid with the same number at every Point, whose empty_cells are
\* the Points of number 0 and whose history is that one snapshot.
C18_SnapshotRoundTrip ==
    (\E p \in Points : number[p] # 0) =>
        LET r == new_from_snapshot(snapshot_of(Self))
        IN  /\ r.ret = "None"
            /\ DOMAIN r.g.number = Points
            /\ \A p \in Points : r.g.number[p] = number[p]
            /\ r.g.empty_cells = {p \in Points : number[p] = 0}
            /\ r.g.history = <<snapshot_of(Self)>>

\* a grid was made from the snapshot of a grid with tiles and empty Cells
C18_Witness ==
    /\ op.name = "new_from_snapshot"
    /\ op.flag
    /\ ret = "None"
    /\ history = <<number>>
    /\ Tiles # {}
    /\ empty_cells # {}
    /\ attempt = 0

\* C19: play2048 leaves its loop only on a jammed grid, on the player
\* quitting, or on the goal reached for the first time; unless it returned
\* on KeyboardInterrupt it then calls one outcome hook: on_player_quit
\* exactly if choice_function raised EOFError, otherwise a victory hook
\* exactly if victory is set, otherwise on_player_loss, and this one only on
\* a jammed grid; the final assertion does not fail.
C19_PlayOutcome ==
    /\ ret # "AssertionError"
    /\ frontend.pc = "returned" =>
         frontend.choice = "KeyboardInterrupt" /\ frontend.hooks = <<>>
    /\ frontend.pc = "done" =>
         /\ \/ frontend.choice = "EOFError"
            \/ is_jammed(Self)
            \/ ~frontend.victory_before /\ largest(Self) >= frontend.goal
         /\ Len(frontend.hooks) = 1
         /\ frontend.hooks[1] = "on_player_quit" <=> frontend.choice = "EOFError"
         /\ frontend.choice # "EOFError" =>
              /\ frontend.hooks[1] \in {"on_player_victory", "on_player_overvictory"}
                   <=> frontend.victory
              /\ ~frontend.victory => frontend.hooks[1] = "on_player_loss"
         /\ frontend.hooks[1] = "on_player_loss" => is_jammed(Self)

\* the grid jammed before the goal was reached, and on_player_loss was called
C19_Witness ==
    /\ frontend.pc = "done"
    /\ frontend.hooks = <<"on_player_loss">>
    /\ frontend.choice \in DirectionSet
    /\ is_jammed(Self)
    /\ largest(Self) < frontend.goal

\* C20: play2048 on a grid that is empty or jammed raises Base2048Error
\* before choice_function is called and before any drag; the grid is as it
\* was.
C20_PlayRefusesEmptyOrJammed ==
    (op.name = "play2048" /\ (is_empty(op.before) \/ is_jammed(op.before))) =>
        /\ ret = "Base2048Error"
        /\ frontend.pc = "raised"
        /\ frontend.choices = 0
        /\ Self = op.before

\* play2048 raised on a new grid
C20_Witness ==
    /\ op.name = "play2048"
    /\ ret = "Base2048Error"
    /\ is_empty(Self)
    /\ frontend.choices = 0

\* C21: on a width x height grid, grid[i] with 0 <= i < width returns the
\* values at (i, 0), ..., (i, height - 1) in that order and equals the i-th
\* item of columns(); grid[..., j] with 0 <= j < height returns the values
\* at (0, j), ..., (width - 1, j) in that order and equals the j-th item of
\* rows().
C21_ColumnsAndRows ==
    (op.name = "__getitem__" /\ ~op.key.is_point) =>
        /\ \A i \in 0 .. (width_of(intgrid) - 1) :
             op.key.args = <<IntSel(i)>> =>
                 /\ op.got.ret = "None"
                 /\ ~op.got.single
                 /\ op.got.values =
                        [k \in 1 .. height_of(intgrid) |-> intgrid[<<i, k - 1>>]]
                 /\ op.got = columns_of(intgrid, FALSE)[i + 1]
        /\ \A j \in 0 .. (height_of(intgrid) - 1) :
             op.key.args = <<Ellipsis, IntSel(j)>> =>
                 /\ op.got.ret = "None"
                 /\ ~op.got.single
                 /\ op.got.values =
                        [k \in 1 .. width_of(intgrid) |-> intgrid[<<k - 1, j>>]]
                 /\ op.got = rows_of(intgrid, FALSE)[j + 1]

\* row 1 of the ranged grid of 3 columns and 2 rows was read
C21_Witness ==
    /\ op.name = "__getitem__"
    /\ op.key = IndexKey(<<Ellipsis, IntSel(1)>>)
    /\ width_of(intgrid) = 3
    /\ height_of(intgrid) = 2
    /\ op.got.values = <<3, 4, 5>>

\* range(start, stop, step) of a bounded slice start:stop:step, where a
\* start left out is 0 and a step left out is 1
RangeOf(s) ==
    [start |-> IF s.start = NoInt THEN 0 ELSE CHOOSE n \in s.start : TRUE,
     stop |-> CHOOSE n \in s.stop : TRUE,
     step |-> IF s.step = NoInt THEN 1 ELSE CHOOSE n \in s.step : TRUE]

\* the selector of one axis matches none of the coordinates 0 .. size - 1
MatchesNothing(sel, size) ==
    \/ sel.kind = "int" /\ sel.i >= size
    \/ /\ sel.kind = "slice"
       /\ sel.stop # NoInt
       /\ \A coordinate \in 0 .. (size - 1) : ~InRange(coordinate, RangeOf(sel))

\* C22: a lookup or an assignment whose selection matches no point of the
\* grid raises KeyError: an int column index >= width, an int row index >=
\* height, and a bounded slice start:stop:step whose range(start, stop, step)
\* holds no coordinate of the grid, an empty range such as 0:0 included.
C22_EmptySelectionFails ==
    ( /\ op.name \in {"__getitem__", "__setitem__"}
      /\ ~op.key.is_point
      /\ GridIndex(op.key.args).ret = "None"
      /\ \/ MatchesNothing(GridIndex(op.key.args).x, width_of(intgrid))
         \/ MatchesNothing(GridIndex(op.key.args).y, height_of(intgrid)) )
    => ret = "KeyError"

\* C23: an assignment to a selection of several slots gives a value that is
\* not a container to every selected slot, or the items of a sequence to the
\* selected slots in selection order, and changes no other slot; a sequence
\* of another length raises ValueError and leaves every slot as it was.
C23_AssignSelection ==
    ( /\ op.name = "__setitem__"
      /\ ~op.key.is_point
      /\ GridIndex(op.key.args).ret = "None"
      /\ Len(select_keys_of(op.before, op.key.args)) > 1 )
    => LET selecteds == select_keys_of(op.before, op.key.args)
           value == op.value
       IN  IF value.container /\ Len(value.items) # Len(selecteds)
           THEN ret = "ValueError" /\ intgrid = op.before
           ELSE /\ ret = "None"
                /\ DOMAIN intgrid = DOMAIN op.before
                /\ \A i \in DOMAIN selecteds :
                     intgrid[selecteds[i]] =
                         IF value.container THEN value.items[i] ELSE value.items[1]
                /\ \A point \in DOMAIN op.before :
                     (\A i \in DOMAIN selecteds : selecteds[i] # point)
                         => intgrid[point] = op.before[point]

\* a tuple of 3 ints was assigned to a column of 2 slots
C23_Witness ==
    /\ op.name = "__setitem__"
    /\ op.key = IndexKey(<<IntSel(1)>>)
    /\ op.value = Container(AssignedItems(3))
    /\ height_of(intgrid) = 2
    /\ ret = "ValueError"

\* the Cells between a Cell and the edge it is dragged to, in its line
TowardsEdge(cell, to) ==
    {other \in Points :
        CASE to = "left" -> other[2] = cell[2] /\ other[1] < cell[1]
          [] to = "right" -> other[2] = cell[2] /\ other[1] > cell[1]
          [] to = "up" -> other[1] = cell[1] /\ other[2] < cell[2]
          [] to = "down" -> other[1] = cell[1] /\ other[2] > cell[2]}

\* the position of a Cell among those _move_cell was called with
VisitOf(cell) == CHOOSE i \in DOMAIN mid.visited : mid.visited[i] = cell

StepsFrom(cell, to, k) == <<cell[1] + k * _SHIFTS[to][1], cell[2] + k * _SHIFTS[to][2]>>
StepsTo(cell, to) == Cardinality({k \in 1 .. Side : StepsFrom(cell, to, k) \in Points})

\* the pivot by the order of priority, for numbers and locks of any grid
PivotByPriority(numbers, locks, cell, to) ==
    LET tiles == {k \in 1 .. StepsTo(cell, to) : numbers[StepsFrom(cell, to, k)] # 0}
        nearest == CHOOSE k \in tiles : \A other \in tiles : k <= other
        empties == IF tiles = {} THEN StepsTo(cell, to) ELSE nearest - 1
    IN  IF /\ tiles # {}
           /\ ~locks[StepsFrom(cell, to, nearest)]
           /\ numbers[StepsFrom(cell, to, nearest)] = numbers[cell]
        THEN StepsFrom(cell, to, nearest)
        ELSE IF empties > 0 THEN StepsFrom(cell, to, empties)
        ELSE cell

\* the grid as it is between the move phase of the last drag and its end
MidGrid == [Self EXCEPT !.number = mid.number, !.locked = mid.locked]

\* C25: _pivot(cell, to) always returns a Cell: the nearest Cell in direction
\* `to` that is not empty, if it is unlocked, holds the number of `cell` and
\* only empty Cells lie between the two; otherwise the farthest empty Cell
\* reached from `cell` through empty Cells only; otherwise `cell` itself.
C25_PivotPriority ==
    \A cell \in Points : \A to \in DirectionSet :
        /\ LET pivot == _pivot(Self, cell, to)
           IN  /\ pivot # None
               /\ pivot = PivotByPriority(number, locked, cell, to)
        /\ op.name = "drag" =>
               LET pivot == _pivot(MidGrid, cell, to)
               IN  /\ pivot # None
                   /\ pivot = PivotByPriority(mid.number, mid.locked, cell, to)

\* after the move phase of a drag a tile stands next to a locked Cell that
\* holds its number, beyond an empty Cell it could slide to on the other side
C25_Witness ==
    /\ op.name = "drag"
    /\ \E cell \in Points : \E to \in DirectionSet :
         /\ mid.number[cell] # 0
         /\ _neighbor(cell, to) # None
         /\ mid.locked[_neighbor(cell, to)]
         /\ mid.number[_neighbor(cell, to)] = mid.number[cell]
         /\ _pivot(MidGrid, cell, to) = cell
    /\ \E cell \in Points : \E to \in DirectionSet :
         /\ mid.number[cell] # 0
         /\ _neighbor(cell, to) # None
         /\ mid.number[_neighbor(cell, to)] = 0
         /\ _pivot(MidGrid, cell, to) # _neighbor(cell, to)

\* the coordinate of a Cell displaced as the claim says
Displaced(cell, to) ==
    CASE to = "left" -> <<cell[1] - 1, cell[2]>>
      [] to = "right" -> <<cell[1] + 1, cell[2]>>
      [] to = "up" -> <<cell[1], cell[2] - 1>>
      [] to = "down" -> <<cell[1], cell[2] + 1>>

\* C26: _neighbor(cell, to) returns the Cell at the coordinate of `cell`
\* displaced by (-1, 0) for left, (+1, 0) for right, (0, -1) for up and
\* (0, +1) for down; it returns None, with no error, exactly when that
\* coordinate has a negative component or lies beyond the grid.
C26_NeighborDisplaced ==
    op.name = "_neighbor" =>
        LET xy == Displaced(op.cell, op.to)
        IN  /\ ret = "None"
            /\ op.got = None <=> \/ xy[1] < 0
                                 \/ xy[2] < 0
                                 \/ xy[1] >= Side
                                 \/ xy[2] >= Side
            /\ op.got # None => op.got = xy

\* the neighbour above a Cell of the first row was asked for
C26_Witness ==
    /\ op.name = "_neighbor"
    /\ op.cell = <<2, 0>>
    /\ op.to = "up"
    /\ op.got = None

\* the sum of the tiles formed when the tiles of a line, listed from the
\* target edge, merge: two equal tiles n in a row form one tile 2n
RECURSIVE MergeGain(_)
MergeGain(tiles) ==
    IF Len(tiles) < 2 THEN 0
    ELSE IF tiles[1] = tiles[2]
    THEN 2 * tiles[1] + MergeGain(SubSeq(tiles, 3, Len(tiles)))
    ELSE MergeGain(Tail(tiles))

RECURSIVE SumOver(_, _)
SumOver(f, keys_) ==
    IF keys_ = {} THEN 0
    ELSE LET k == CHOOSE k \in keys_ : TRUE IN f[k] + SumOver(f, keys_ \ {k})

\* what the merges of a drag of this board are worth
DragGain(board, to) ==
    SumOver([k \in Axis |->
                MergeGain(SelectSeq(NumbersOn(board, LineTowards(to, k)),
                                    LAMBDA n : n # 0))],
            Axis)

\* C27: a drag adds to score exactly the sum of the tiles its merges formed
\* (two tiles n form a tile 2n and add 2n); a Cell that slides into an empty
\* Cell adds nothing and does not lock it: the Cells locked by the move
\* phase are the ones that received a merge.
C27_DragScoresMerges ==
    op.name = "drag" =>
        /\ score = op.before.score + DragGain(op.before.number, op.to)
        /\ \A p \in Points :
             mid.locked[p] <=>
                 \E i \in DOMAIN moves : moves[i].merged /\ moves[i].pivot = p
        /\ Cardinality({p \in Points : mid.locked[p]})
              = Cardinality({p \in Points : op.before.number[p] # 0})
                - Cardinality({p \in Points : mid.number[p] # 0})

\* a drag slid a tile into an empty Cell, which stayed unlocked, and merged
\* two tiles of another line
C27_Witness ==
    /\ op.name = "drag"
    /\ ret = "True"
    /\ score > 0
    /\ \E i \in DOMAIN moves : \E j \in DOMAIN moves :
         /\ ~moves[i].merged
         /\ ~mid.locked[moves[i].pivot]
         /\ pre[moves[i].pivot] = 0
         /\ moves[j].merged
         /\ mid.locked[moves[j].pivot]

\* C28: in every state reached through construction, seed, drag, undo, reset
\* and autofill, hence at the start of every drag, every Cell is unlocked:
\* no lock set during a drag outlives it, whether it returned true or false.
C28_NoLockOutlivesDrag ==
    /\ \A p \in Points : ~locked[p]
    /\ op.name = "drag" => ret \in {"True", "False"}

\* a drag whose move phase locked exactly one Cell ended, and no Cell is locked
C28_Witness ==
    /\ op.name = "drag"
    /\ ret = "True"
    /\ Cardinality({p \in Points : mid.locked[p]}) = 1
    /\ \A p \in Points : ~locked[p]

\* a seed, drag, undo or autofill is completed by this step
Completes == op'.name \in {"seed", "drag", "undo", "autofill"} /\ ret' \notin Exceptions

\* C29 as stated: whenever history is not empty after a completed seed,
\* drag, undo or autofill, its last snapshot is the board; an undo that
\* occurred removed exactly one snapshot.
C29_LastSnapshotIsBoardAlways ==
    [][ Completes =>
          /\ history' # <<>> => history'[Len(history')] = number'
          /\ (op'.name = "undo" /\ ret' = "True") =>
                 history' = SubSeq(history, 1, Len(history) - 1)
      ]_vars

\* C29, amended: after a seed or an autofill that returned and after a drag
\* that returned true the last snapshot is the board; an undo that returned
\* true removed exactly the last snapshot and the board holds the numbers of
\* the new last one; a drag or an undo that returned false left the numbers
\* and history as they were.
C29_LastSnapshotIsBoard ==
    (op.name \in {"seed", "drag", "undo", "autofill"} /\ ret \notin Exceptions) =>
        /\ (op.name \in {"seed", "autofill"} \/ (op.name = "drag" /\ ret = "True")) =>
               /\ history # <<>>
               /\ history[Len(history)] = number
        /\ (op.name = "undo" /\ ret = "True") =>
               /\ history = SubSeq(op.before.history, 1, Len(op.before.history) - 1)
               /\ history # <<>>
               /\ \A p \in DOMAIN history[Len(history)] :
                    number[p] = history[Len(history)][p]
        /\ (op.name \in {"drag", "undo"} /\ ret = "False") =>
               /\ number = op.before.number
               /\ history = op.before.history

\* an undo removed the snapshot of an autofill and brought back a board
\* that differs from it
C29_Witness ==
    /\ op.name = "undo"
    /\ op.after = "autofill"
    /\ ret = "True"
    /\ Len(history) = 1
    /\ history[1] = number
    /\ number # Checker
    /\ \E p \in Points : number[p] = 0

\* C30: the snapshots stored in history do not follow the live Cells: a
\* later drag, seed or autofill changes no value of an entry history already
\* held; all it does to history is append one entry, the board it produced.
C30_SnapshotsIndependent ==
    op.name \in {"drag", "seed", "autofill"} =>
        \/ history = op.before.history
        \/ /\ history = Append(op.before.history, number)
           /\ Running

\* a drag changed the board and appended its snapshot after the one of the
\* board it started from
C30_Witness ==
    /\ op.name = "drag"
    /\ ret = "True"
    /\ Len(history) = 2
    /\ history[1] = pre
    /\ history[2] = number
    /\ \E p \in Points : pre[p] # 0 /\ number[p] = 0

\* C31: after Base2048Frontend.restart(), whatever the state before it,
\* attempt, cycle and score are 0, victory is false, every Cell is unlocked,
\* exactly STARTING_AMOUNT Cells hold a number, each 2 or 4, and history
\* holds exactly one snapshot, equal to the board.
C31_RestartState ==
    op.name = "restart" =>
        /\ ret = "None"
        /\ attempt = 0
        /\ cycle = 0
        /\ score = 0
        /\ ~frontend.victory
        /\ \A p \in Points : ~locked[p]
        /\ Cardinality({p \in Points : number[p] # 0}) = STARTING_AMOUNT
        /\ \A p \in Points : number[p] \in {0, 2, 4}
        /\ history = <<number>>

\* restart was called after a play that had been won and then jammed
C31_Witness ==
    /\ op.name = "restart"
    /\ frontend.hooks = <<"on_player_overvictory">>
    /\ frontend.victory_before
    /\ ~frontend.victory
    /\ Len(history) = 1

\* C32: play2048 calls on_player_overvictory only if victory was already set
\* when play2048 was called and the grid then jammed; when the goal is
\* reached for the first time during the call, on_player_victory is called.
C32_OvervictoryOnlyAfterEarlierWin ==
    frontend.pc = "done" =>
        /\ frontend.hooks[1] = "on_player_overvictory" =>
             frontend.victory_before /\ frontend.is_jammed
        /\ (~frontend.victory_before /\ frontend.victory
               /\ frontend.choice \in DirectionSet) =>
             frontend.hooks[1] = "on_player_victory"

\* the calls a step has added to the calls of play2048
\* the turns before the last one each made six calls, after on_play
EarlierCalls == SubSeq(frontend.calls, 1, 1 + 6 * (frontend.choices - 1))
NewCalls == SubSeq(frontend.calls, Len(EarlierCalls) + 1, Len(frontend.calls))

CountOf(name, calls) == Cardinality({i \in DOMAIN calls : calls[i] = name})

OutcomeHooks ==
    {"on_player_quit", "on_player_victory", "on_player_overvictory", "on_player_loss"}

\* C33: play2048 calls after_play exactly once on every way out of its loop
\* but KeyboardInterrupt, where it returns at once with neither after_play
\* nor an outcome hook; every turn of the loop calls on_attempt, the choice
\* function, after_choice, drag, then after_change if drag returned True and
\* after_nochange if it returned False, never both, then after_attempt.
C33_HookOrder ==
    op.name = "choice_function" =>
        /\ Len(frontend.calls) > 1 + 6 * (frontend.choices - 1)
        /\ EarlierCalls[1] = "on_play"
        /\ \A i \in 1 .. frontend.choices - 1 :
             /\ SubSeq(EarlierCalls, 6 * i - 4, 6 * i - 1) =
                   <<"on_attempt", "choice_function", "after_choice", "drag">>
             /\ EarlierCalls[6 * i] \in {"after_change", "after_nochange"}
             /\ EarlierCalls[6 * i + 1] = "after_attempt"
        /\ frontend.choice = "KeyboardInterrupt" =>
             /\ frontend.pc = "returned"
             /\ NewCalls = <<"on_attempt", "choice_function">>
        /\ frontend.choice = "EOFError" =>
             /\ frontend.pc = "done"
             /\ NewCalls = <<"on_attempt", "choice_function", "after_play",
                             "on_player_quit">>
        /\ frontend.choice \in DirectionSet =>
             /\ frontend.pc \in {"loop", "done"}
             /\ SubSeq(NewCalls, 1, 6) =
                   <<"on_attempt", "choice_function", "after_choice", "drag",
                     IF cycle = op.before.cycle + 1 THEN "after_change"
                     ELSE "after_nochange",
                     "after_attempt">>
             /\ cycle \in {op.before.cycle, op.before.cycle + 1}
             /\ frontend.pc = "loop" => Len(NewCalls) = 6
             /\ frontend.pc = "done" =>
                  /\ Len(NewCalls) = 8
                  /\ NewCalls[7] = "after_play"
                  /\ NewCalls[8] \in OutcomeHooks \ {"on_player_quit"}

\* a play of two turns: a drag that changed nothing, then one that jammed the
\* grid, after_play once, then on_player_loss
C33_Witness ==
    /\ frontend.pc = "done"
    /\ frontend.calls =
         <<"on_play",
           "on_attempt", "choice_function", "after_choice", "drag", "after_nochange",
           "after_attempt",
           "on_attempt", "choice_function", "after_choice", "drag", "after_change",
           "after_attempt",
           "after_play", "on_player_loss">>

\* C34: grid[point] = n and grid[x, y] = n on a Grid, with n a number a Cell
\* accepts, do not fail: they change the number of the Cell at that position
\* and update empty_cells, and leave everything else as it was.
C34_IndexAssignmentSetsNumber ==
    [][(op'.name = "__setitem__" /\ op'.value.type = "int") =>
          /\ ret' = "None"
          /\ number' = _set_point(Self, op'.key.point, op'.value.number).number
          /\ empty_cells' = _set_point(Self, op'.key.point, op'.value.number).empty_cells
          /\ UNCHANGED <<locked, history, attempt, cycle, score>>]_vars

\* C35: whenever the move phase of a drag moved at least one Cell, some Cell
\* is empty when seed(1) is called, also on a board that was full before the
\* drag; the seeding does not fail: the drag returns True and exactly one
\* Cell that was empty after the moves holds a 2 or a 4.
C35_DragFindsRoomToSeed ==
    (op.name = "drag" /\ moves # <<>>) =>
        /\ \E p \in Points : mid.number[p] = 0
        /\ ret = "True"
        /\ \E p \in Points :
             /\ mid.number[p] = 0
             /\ number[p] \in SEEDING_VALUES
             /\ empty_cells = {q \in Points : mid.number[q] = 0} \ {p}
             /\ \A q \in Points \ {p} : number[q] = mid.number[q]

\* a drag on a full board: a merge made room for the seed
C35_Witness ==
    /\ op.name = "drag"
    /\ ret = "True"
    /\ \A p \in Points : pre[p] # 0
    /\ Cardinality({p \in Points : mid.number[p] = 0}) = 1

\* the sum of the numbers of a board
BoardSum(board) == SumOver(board, Points)

\* C36: the move phase of a drag keeps the sum of all Cell numbers; a drag
\* that returns True raises the sum by exactly the value seeded, 2 or 4,
\* and a drag that returns False leaves it as it was.
C36_DragKeepsSum ==
    op.name = "drag" =>
        /\ BoardSum(mid.number) = BoardSum(op.before.number)
        /\ ret \in {"True", "False"}
        /\ ret = "True" =>
             BoardSum(number) - BoardSum(op.before.number) \in SEEDING_VALUES
        /\ ret = "False" => BoardSum(number) = BoardSum(op.before.number)

\* a drag with a merge and a slide, and a 4 seeded
C36_Witness ==
    /\ op.name = "drag"
    /\ ret = "True"
    /\ \E i \in DOMAIN moves : moves[i].merged
    /\ \E i \in DOMAIN moves : ~moves[i].merged
    /\ BoardSum(number) = BoardSum(pre) + 4

\* drag(to) on this grid can return True
CanDrag(g, to) == \E d \in drag(g, to) : d.ret = "True"

C38_UndoKeepsCounters ==
    (op.name = "undo" /\ ret = "True") =>
        /\ attempt = op.before.attempt
        /\ cycle = op.before.cycle
        /\ score = op.before.score
        /\ Len(history) = Len(op.before.history) - 1
        /\ number = op.before.history[Len(op.before.history) - 1]

\* a drag that merged was undone: the board is the one before the drag, and
\* the counters and the score still tell of the drag
C38_Witness ==
    /\ op.name = "undo"
    /\ ret = "True"
    /\ op.after = "drag"
    /\ number = pre
    /\ attempt = 1
    /\ cycle = 1
    /\ score > 0
    /\ Len(history) = 1

\* C39: an update_with_snapshot that fails, be it for a snapshot of zeroes
\* only, for a value that is neither 0 nor a power of 2, or for a point
\* outside the grid, leaves the grid as it was: no number, no lock and no
\* entry of empty_cells has changed.
C39_FailedUpdateChangesNothing ==
    [][(op'.name = "update_with_snapshot" /\ ret' \in Exceptions) =>
          UNCHANGED <<number, locked, empty_cells>>]_vars

\* C40: == on two Grids compares their Cells by position only: two Grids of
\* the same side are equal whatever their numbers, locks, history, counters
\* and score, so that == tells no board from another.
C40_GridsAlwaysEqual ==
    [][op'.name = "__eq__" => ret' = "True"]_vars

\* a new grid was found equal to a grid in the middle of a drag that
\* merged: numbers, locks, history, counters and score all differ
C40_Witness ==
    /\ op.name = "__eq__"
    /\ ret = "True"
    /\ number # op.other.number
    /\ \E p \in Points : op.other.locked[p] /\ ~locked[p]
    /\ history # op.other.history
    /\ attempt # op.other.attempt
    /\ cycle # op.other.cycle
    /\ score # op.other.score

====
